---- MODULE Spec2Model ----
(***************************************************************************)
(* Thai Smart POS server: the stock ledger, the sale handler, the shift    *)
(* ledger and the full tax invoice register, as they are implemented in    *)
(* server/db.ts and server/routers.ts on top of the mongoose schemas.      *)
(*                                                                         *)
(* Every tRPC handler is a sequence of awaited database round trips.  One  *)
(* action of the model is one round trip together with the synchronous     *)
(* code that precedes it; handlers of concurrent requests interleave       *)
(* between round trips.  A single-document MongoDB operation               *)
(* (findOneAndUpdate, updateOne, insert with its unique indexes) is        *)
(* atomic.                                                                 *)
(*                                                                         *)
(* A Date is a tick count.  A document's _id is its position in its        *)
(* collection, in insertion order; the slot of a deleted Product holds     *)
(* Deleted, since an _id is never given to another document.  The _id of a *)
(* StockMovement is read by the program (the movement listing sorts and    *)
(* pages by it), so it is kept as a field: an ObjectId is generated by the *)
(* server when the document is built, before its insert is sent, and the   *)
(* ObjectIds one server process generates grow in the order it generates   *)
(* them.  The model has one server process and numbers the ObjectIds of    *)
(* the StockMovement documents 1, 2, ... in that order.                    *)
(***************************************************************************)
EXTENDS Integers, Sequences, FiniteSets, TLC

VARIABLES
    products,      \* Product collection: Seq of [userId, stock, reorderPoint, createdStock]
    movements,     \* StockMovement collection, in the order the inserts landed
    objectIds,     \* how many StockMovement documents the server has built
    sales,         \* Sale collection
    saleItems,     \* SaleItem collection
    customers,     \* Customer collection
    shifts,        \* Shift collection
    invoices,      \* FullTaxInvoice collection, in insertion order
    settingsDocs,  \* Settings collection
    now,           \* the server clock (new Date())
    pc,            \* per request slot: the round trip the handler is waiting to make
    lv,            \* per request slot: the handler's input and local variables
    ret            \* per request slot: outcome of the handler ("pending" while it runs)

vars == <<products, movements, objectIds, sales, saleItems, customers, shifts, invoices,
          settingsDocs, now, pc, lv, ret>>

stockVars == <<products, movements, objectIds>>
saleVars == <<sales, saleItems, customers>>
shiftVars == <<shifts>>
invoiceVars == <<invoices, settingsDocs>>

(***************************************************************************)
(* Bounds of the exploration and the program's constants.                  *)
(***************************************************************************)
Procs == {"r1", "r2"}          \* concurrent request slots
Users == {"A", "B"}            \* shops (ctx.user.id)

MaxMovements == 2              \* new requests stop once the ledger holds this many rows
MaxBuilt == 4                  \* and once this many movement documents were built
MaxStock == 10                 \* stock-in requests stop once a product holds this much
MaxProducts == 2               \* products.create stops at this many products
MaxSales == 2                  \* sales.create stops at this many sales

NoteMaxLen == 500              \* StockMovementSchema.note.maxlength
MinMovementQuantity == 1       \* StockMovementSchema.quantity.min
DefaultReorderPoint == 5       \* createProduct: reorderPoint ?? minStock ?? 5

Sources == {"SALE", "PURCHASE", "ADJUST"}

\* A note is null or a string, of which the model keeps the length and, for
\* the note of a sale (`sale:${saleId}`), the sale it names.
NullNote == [isNull |-> TRUE, len |-> 0, sale |-> 0]
TextNote(n) == [isNull |-> FALSE, len |-> n, sale |-> 0]
SaleNoteLen == 29              \* "sale:" + 24 hex digits of an ObjectId
SaleNote(saleId) == [isNull |-> FALSE, len |-> SaleNoteLen, sale |-> saleId]

Abs(n) == IF n < 0 THEN -n ELSE n

(***************************************************************************)
(* Request bookkeeping.                                                    *)
(***************************************************************************)
Idle(p) == pc[p] = "idle"
AllIdle == \A p \in Procs : Idle(p)

\* A handler starts: its input and locals are l, its first round trip is at.
Begin(p, l, at) ==
    /\ pc' = [pc EXCEPT ![p] = at]
    /\ lv' = [lv EXCEPT ![p] = l]
    /\ ret' = [ret EXCEPT ![p] = "pending"]

\* A handler moves on to its next round trip with locals l.
Goto(p, l, at) ==
    /\ pc' = [pc EXCEPT ![p] = at]
    /\ lv' = [lv EXCEPT ![p] = l]
    /\ UNCHANGED ret

NoLocals == [op |-> "none"]

\* A handler returns (outcome "ok") or throws (outcome names the error);
\* its locals are gone.
Finish(p, outcome) ==
    /\ pc' = [pc EXCEPT ![p] = "idle"]
    /\ ret' = [ret EXCEPT ![p] = outcome]
    /\ lv' = [lv EXCEPT ![p] = NoLocals]

\* A handler of a single round trip ran from start to end.
Done(p, outcome) ==
    /\ ret' = [ret EXCEPT ![p] = outcome]
    /\ UNCHANGED <<pc, lv>>

(***************************************************************************)
(* Stock ledger: adjustProductStock (db.ts 370-412).                       *)
(***************************************************************************)
\* What is left at the _id of a product that Product.deleteOne removed.
Deleted == [deleted |-> TRUE]

ProductExists(id) == id \in 1..Len(products) /\ products[id] # Deleted

\* The _ids of the products in the collection.
ProductIds == {i \in 1..Len(products) : products[i] # Deleted}

\* Number.isFinite(quantityChange) && quantityChange !== 0, on integers.
AdjustInputValid(quantityChange) == quantityChange # 0

MovementType(quantityChange) == IF quantityChange > 0 THEN "IN" ELSE "OUT"

\* The filter of findOneAndUpdate: { _id } and, for an OUT, { stock: { $gte: quantity } }.
AdjustFilterNoFloor(id, quantityChange) == ProductExists(id)
AdjustFilterAnyStock(id, quantityChange) ==
    /\ ProductExists(id)
    /\ quantityChange < 0 => products[id].stock > 0
AdjustFilterMatches(id, quantityChange) ==
    /\ ProductExists(id)
    /\ quantityChange < 0 => products[id].stock >= Abs(quantityChange)

\* The error thrown when findOneAndUpdate matched nothing.
AdjustNoMatchError(quantityChange) ==
    IF quantityChange < 0 THEN "insufficient_stock" ELSE "product_not_found"

\* The document StockMovement.create builds: its _id and the fields it is given.
MovementOf(a) ==
    [_id |-> a.movementId,
     productId |-> a.productId,
     type |-> MovementType(a.quantityChange),
     quantity |-> Abs(a.quantityChange),
     source |-> a.source,
     note |-> a.note]

\* Mongoose validation of a StockMovement on create.
MovementValid(m) ==
    /\ m.quantity >= MinMovementQuantity
    /\ m.type \in {"IN", "OUT"}
    /\ m.source \in Sources
    /\ m.note.isNull \/ m.note.len <= NoteMaxLen

\* What follows a completed adjustProductStock in its caller: the sale
\* handler goes on with its next line item, every other caller returns.
AfterAdjust(p) ==
    LET l == lv[p] IN
    IF l.op = "sale" /\ l.idx < Len(l.items)
    THEN LET it == l.items[l.idx + 1] IN
         Goto(p, [l EXCEPT !.idx = l.idx + 1,
                           !.adj = [productId |-> it.productId,
                                    quantityChange |-> -it.quantity,
                                    source |-> "SALE",
                                    note |-> SaleNote(l.saleId),
                                    movementId |-> 0]],
              "adj_update")
    ELSE Finish(p, "ok")

\* Validation and the conditional $inc, one atomic findOneAndUpdate.  When
\* it returns a product, StockMovement.create builds its document, which
\* gives it the next ObjectId, and sends the insert.
AdjustUpdate(p) ==
    /\ pc[p] = "adj_update"
    /\ LET a == lv[p].adj IN
       IF ~AdjustInputValid(a.quantityChange)
       THEN /\ Finish(p, "invalid_quantity")
            /\ UNCHANGED <<products, objectIds>>
       ELSE IF AdjustFilterMatches(a.productId, a.quantityChange)
       THEN /\ products' = [products EXCEPT ![a.productId].stock = @ + a.quantityChange]
            /\ objectIds' = objectIds + 1
            /\ Goto(p, [lv[p] EXCEPT !.adj.movementId = objectIds + 1], "adj_movement")
       ELSE /\ Finish(p, AdjustNoMatchError(a.quantityChange))
            /\ UNCHANGED <<products, objectIds>>
    /\ UNCHANGED <<movements, saleVars, shiftVars, invoiceVars, now>>

\* StockMovement.create after the stock was changed.
AdjustMovement(p) ==
    /\ pc[p] = "adj_movement"
    /\ LET m == MovementOf(lv[p].adj) IN
       IF MovementValid(m)
       THEN /\ movements' = Append(movements, m)
            /\ AfterAdjust(p)
       ELSE /\ Finish(p, "movement_validation_error")
            /\ UNCHANGED movements
    /\ UNCHANGED <<products, objectIds, saleVars, shiftVars, invoiceVars, now>>

\* A call of db.adjustProductStock / db.updateProductStock by itself.
AdjustCall(p, ids, deltas, srcs, notes) ==
    /\ Idle(p)
    /\ Len(movements) < MaxMovements
    /\ objectIds < MaxBuilt
    /\ \E id \in ids, q \in deltas, s \in srcs, n \in notes :
         /\ q > 0 => \A i \in ProductIds : products[i].stock + q <= MaxStock
         /\ Begin(p, [op |-> "adjust",
                      adj |-> [productId |-> id, quantityChange |-> q,
                               source |-> s, note |-> n, movementId |-> 0]],
                  "adj_update")
    /\ UNCHANGED <<stockVars, saleVars, shiftVars, invoiceVars, now>>

(***************************************************************************)
(* stock.in (routers.ts 308-328) and stockInPurchase (db.ts 424-437).      *)
(***************************************************************************)
\* getProductById(id, userId): the product of that id owned by that shop.
OwnedProduct(id, userId) == ProductExists(id) /\ products[id].userId = userId

\* stock.in arrives.  The input schema (quantity: z.number().min(1)) rejects
\* the request before the handler runs; otherwise getProductById is awaited.
StockInStart(p, users, ids, qtys, notes) ==
    /\ Idle(p)
    /\ Len(movements) < MaxMovements
    /\ objectIds < MaxBuilt
    /\ \E u \in users, id \in ids, q \in qtys, n \in notes :
         IF q < 1
         THEN Done(p, "bad_request")
         ELSE /\ \A i \in ProductIds : products[i].stock + q <= MaxStock
              /\ Begin(p, [op |-> "stockIn", userId |-> u, productId |-> id,
                           quantity |-> q, note |-> n],
                       "stockin_find")
    /\ UNCHANGED <<stockVars, saleVars, shiftVars, invoiceVars, now>>

\* The ownership check, then stockInPurchase up to its call of adjustProductStock.
StockInFind(p) ==
    /\ pc[p] = "stockin_find"
    /\ LET l == lv[p] IN
       IF ~OwnedProduct(l.productId, l.userId)
       THEN Finish(p, "product_not_found")
       ELSE IF l.quantity <= 0
       THEN Finish(p, "quantity_not_positive")
       ELSE Goto(p, [op |-> "stockIn", userId |-> l.userId, productId |-> l.productId,
                     quantity |-> l.quantity, note |-> l.note,
                     adj |-> [productId |-> l.productId, quantityChange |-> l.quantity,
                              source |-> "PURCHASE", note |-> l.note,
                              movementId |-> 0]],
                 "adj_update")
    /\ UNCHANGED <<stockVars, saleVars, shiftVars, invoiceVars, now>>

(***************************************************************************)
(* products.create / update / delete / import (routers.ts 122-205,         *)
(* db.ts 221-258, 312-340).  An optional input field is a set: {} when it  *)
(* is undefined, {v} when it is v.                                         *)
(***************************************************************************)
\* Mongoose validation of a Product on save (stock, reorderPoint: min 0).
ProductValid(d) == d.stock >= 0 /\ d.reorderPoint >= 0

\* x ?? dflt
OrElse(x, dflt) == IF x = {} THEN dflt ELSE CHOOSE v \in x : TRUE

\* The document createProduct and createProductsBulk build: stock ?? 0,
\* reorderPoint ?? minStock ?? 5.  createdStock is the stock it is inserted with.
ProductDoc(u, stock, reorderPoint) ==
    [userId |-> u, stock |-> OrElse(stock, 0),
     reorderPoint |-> OrElse(reorderPoint, DefaultReorderPoint),
     createdStock |-> OrElse(stock, 0)]

ProductsCreate(p, users, stocks, reorderPoints) ==
    /\ Idle(p)
    /\ Len(products) < MaxProducts
    /\ \E u \in users, s \in stocks, r \in reorderPoints :
         LET d == ProductDoc(u, s, r) IN
         IF ProductValid(d)
         THEN /\ products' = Append(products, d)
              /\ Done(p, "ok")
         ELSE /\ UNCHANGED products
              /\ Done(p, "product_validation_error")
    /\ UNCHANGED <<movements, objectIds, saleVars, shiftVars, invoiceVars, now>>

\* products.import: createProductsBulk maps the rows to documents and
\* Product.insertMany validates every one of them before it inserts any.
ProductsImport(p, users, rowLists) ==
    /\ Idle(p)
    /\ \E u \in users, rows \in rowLists :
         LET docs == [i \in 1..Len(rows) |->
                         ProductDoc(u, rows[i].stock, rows[i].reorderPoint)] IN
         /\ Len(products) + Len(rows) <= MaxProducts
         /\ IF \A i \in 1..Len(docs) : ProductValid(docs[i])
            THEN /\ products' = products \o docs
                 /\ Done(p, "ok")
            ELSE /\ UNCHANGED products
                 /\ Done(p, "product_validation_error")
    /\ UNCHANGED <<movements, objectIds, saleVars, shiftVars, invoiceVars, now>>

\* updateOne({ _id, userId }, { $set: updateData }); update validators are off.
UpdateProductDoc(d, data) ==
    [d EXCEPT !.stock = IF data.stock = {} THEN @ ELSE CHOOSE v \in data.stock : TRUE,
              !.reorderPoint = IF data.reorderPoint = {} THEN @
                               ELSE CHOOSE v \in data.reorderPoint : TRUE]

ProductsUpdate(p, users, ids, stocks, reorderPoints) ==
    /\ Idle(p)
    /\ \E u \in users, id \in ids, s \in stocks, r \in reorderPoints :
         LET data == [stock |-> s, reorderPoint |-> r] IN
         /\ Done(p, "ok")
         /\ IF OwnedProduct(id, u)
            THEN products' = [products EXCEPT ![id] = UpdateProductDoc(@, data)]
            ELSE UNCHANGED products
    /\ UNCHANGED <<movements, objectIds, saleVars, shiftVars, invoiceVars, now>>

\* products.delete: Product.deleteOne({ _id, userId }); success whatever it matched.
ProductsDelete(p, users, ids) ==
    /\ Idle(p)
    /\ \E u \in users, id \in ids :
         /\ Done(p, "ok")
         /\ IF OwnedProduct(id, u)
            THEN products' = [products EXCEPT ![id] = Deleted]
            ELSE UNCHANGED products
    /\ UNCHANGED <<movements, objectIds, saleVars, shiftVars, invoiceVars, now>>

(***************************************************************************)
(* Numbers.  A JavaScript or BSON number is an IEEE 754 double.  The       *)
(* amounts that are whole in every run of the model (prices, quantities,   *)
(* totalAmount, subtotal, cash counted) are integers.  vatAmount,          *)
(* totalWithVat and totalDebt are the doubles themselves:                  *)
(* [whole |-> n, ones |-> S] is n plus the sum of 2^-i over i in S.        *)
(* A VAT rate is named by its percentage (7 for the literal 0.07).         *)
(***************************************************************************)
FracBits == 64                 \* binary places the model keeps after the point
MantissaBits == 53             \* significant bits of a double

\* The places after the point are worked on LimbBits at a time, in as many
\* limbs as hold FracBits places.
LimbBits == 8
Limbs == (FracBits + LimbBits - 1) \div LimbBits
LimbSize == 2 ^ LimbBits

\* The double of a whole number, and bit i after the point of x.
Whole(n) == [whole |-> n, ones |-> {}]
Bit(x, i) == IF i \in x.ones THEN 1 ELSE 0

SetMax(S) == CHOOSE i \in S : \A j \in S : j <= i
SetMin(S) == CHOOSE i \in S : \A j \in S : i <= j

RECURSIVE BitLength(_)
BitLength(n) == IF n = 0 THEN 0 ELSE 1 + BitLength(n \div 2)

\* The double nearest to the exact value x (sticky: a remainder below the
\* last place kept is left over), ties to the even significand.
RoundToDouble(x, sticky) ==
    IF x.whole = 0 /\ x.ones = {} THEN x
    ELSE LET exponent == IF x.whole > 0 THEN BitLength(x.whole) ELSE 1 - SetMin(x.ones)
             kept == MantissaBits - exponent
             up == /\ Bit(x, kept + 1) = 1
                   /\ \/ sticky
                      \/ \E i \in x.ones : i > kept + 1
                      \/ Bit(x, kept) = 1
             low == {i \in x.ones : i <= kept}
             zeros == {i \in 1..kept : i \notin x.ones}
         IN IF kept >= Limbs * LimbBits THEN x
            ELSE IF ~up THEN [whole |-> x.whole, ones |-> low]
            ELSE IF zeros = {} THEN [whole |-> x.whole + 1, ones |-> {}]
            ELSE [whole |-> x.whole,
                  ones |-> {i \in low : i < SetMax(zeros)} \cup {SetMax(zeros)}]

\* Limb m of x is the whole number its places (m - 1) * LimbBits + 1 ..
\* m * LimbBits spell; PlacesOf is the way back.

RECURSIVE SumOfPowers(_)
SumOfPowers(S) ==
    IF S = {} THEN 0
    ELSE LET i == CHOOSE j \in S : TRUE IN 2 ^ i + SumOfPowers(S \ {i})

Limb(x, m) ==
    SumOfPowers({m * LimbBits - i : i \in {j \in x.ones : j > (m - 1) * LimbBits
                                                         /\ j <= m * LimbBits}})

PlacesOf(v, m) ==
    {i \in ((m - 1) * LimbBits + 1)..(m * LimbBits) : (v \div 2 ^ (m * LimbBits - i)) % 2 = 1}

\* k * x for a whole k >= 0: the exact product, limb by limb from the right
\* (TimesFrom: limbs m and beyond with the carry into limb m - 1), then the
\* double it is rounded to.
RECURSIVE TimesFrom(_, _, _)
TimesFrom(k, x, m) ==
    IF m > Limbs THEN [carry |-> 0, ones |-> {}]
    ELSE LET right == TimesFrom(k, x, m + 1)
             here == Limb(x, m) * k + right.carry
         IN [carry |-> here \div LimbSize,
             ones |-> right.ones \cup PlacesOf(here % LimbSize, m)]

TimesExact(k, x) ==
    LET places == TimesFrom(k, x, 1)
    IN [whole |-> x.whole * k + places.carry, ones |-> places.ones]

Times(k, x) == RoundToDouble(TimesExact(k, x), FALSE)

\* x + y.
RECURSIVE PlusFrom(_, _, _)
PlusFrom(x, y, m) ==
    IF m > Limbs THEN [carry |-> 0, ones |-> {}]
    ELSE LET right == PlusFrom(x, y, m + 1)
             here == Limb(x, m) + Limb(y, m) + right.carry
         IN [carry |-> here \div LimbSize,
             ones |-> right.ones \cup PlacesOf(here % LimbSize, m)]

PlusExact(x, y) ==
    LET places == PlusFrom(x, y, 1)
    IN [whole |-> x.whole + y.whole + places.carry, ones |-> places.ones]

Plus(x, y) == RoundToDouble(PlusExact(x, y), FALSE)

\* The double a decimal literal n / d is read as (JSON.parse, parseFloat):
\* long division (RatioFrom: the limbs from m on, r being the remainder so
\* far, with what is left after the last limb), then rounding.
RECURSIVE RatioFrom(_, _, _)
RatioFrom(r, d, m) ==
    IF m > Limbs THEN [left |-> r, ones |-> {}]
    ELSE LET right == RatioFrom((r * LimbSize) % d, d, m + 1)
         IN [left |-> right.left,
             ones |-> right.ones \cup PlacesOf((r * LimbSize) \div d, m)]

Ratio(n, d) ==
    IF n % d = 0 THEN Whole(n \div d)
    ELSE LET places == RatioFrom(n % d, d, 1)
         IN RoundToDouble([whole |-> n \div d, ones |-> places.ones], places.left # 0)

\* x.toFixed(2): the whole number n of hundredths with n / 100 nearest to x,
\* the larger n of two; parseFloat reads the string back.
Hundredths(x) == LET y == TimesExact(100, x) IN y.whole + Bit(y, 1)

ParseFloatToFixed2(x) == Ratio(Hundredths(x), 100)

\* x + v for a whole v of either sign (a sum below zero is exact when x is
\* whole, as every debt that is paid in the model's runs is).
PlusWhole(x, v) ==
    IF x.whole + v < 0 THEN [whole |-> x.whole + v, ones |-> x.ones]
    ELSE RoundToDouble([whole |-> x.whole + v, ones |-> x.ones], FALSE)

\* x < y.
Less(x, y) ==
    \/ x.whole < y.whole
    \/ /\ x.whole = y.whole
       /\ \E i \in y.ones \ x.ones : \A j \in 1..(i - 1) : j \in x.ones <=> j \in y.ones

(***************************************************************************)
(* sales.create (routers.ts 223-299) with createCustomer,                  *)
(* updateCustomerDebt, createSale, createSaleItems (db.ts 500-538,         *)
(* 667-726).                                                               *)
(***************************************************************************)
NoName == ""     \* customerName undefined or empty: both are falsy

RECURSIVE ItemsTotal(_)
ItemsTotal(items) ==
    IF items = <<>> THEN 0
    ELSE Head(items).unitPrice * Head(items).quantity + ItemsTotal(Tail(items))

\* The input vatRate as the double it is parsed to.
MaxVatPercent == 7             \* vatRate: z.number().min(0).max(0.07)
VatRates == [vatPercent \in 0..MaxVatPercent |-> Ratio(vatPercent, 100)]
RateOf(vatPercent) == VatRates[vatPercent]

\* subtotal * vatRate, not rounded to satang.
VatAmountOf(subtotal, vatPercent) == Times(subtotal, RateOf(vatPercent))

\* subtotal + vatAmount.
TotalWithVatOf(subtotal, vatAmount) == Plus(Whole(subtotal), vatAmount)

NoAdj == [productId |-> 0, quantityChange |-> 0, source |-> "ADJUST", note |-> NullNote,
          movementId |-> 0]

\* The input schema of sales.create: every item has quantity >= 1,
\* paymentType is cash or credit, vatRate is between 0 and 0.07.
SaleInputValid(items, paymentType, vatPercent) ==
    /\ \A i \in 1..Len(items) : items[i].quantity >= 1
    /\ paymentType \in {"cash", "credit"}
    /\ vatPercent \in 0..MaxVatPercent

\* sales.create arrives.  A request the input schema rejects ends before the
\* handler runs.
SaleStart(p, users, itemLists, paymentTypes, names, vatPercents) ==
    /\ Idle(p)
    /\ Len(sales) < MaxSales
    /\ Len(movements) < MaxMovements
    /\ \E u \in users, items \in itemLists, pt \in paymentTypes,
          cn \in names, vr \in vatPercents :
         IF ~SaleInputValid(items, pt, vr)
         THEN Done(p, "bad_request")
         ELSE
         LET totalAmount == ItemsTotal(items)
             vatAmount == VatAmountOf(totalAmount, vr)
         IN Begin(p, [op |-> "sale", userId |-> u, items |-> items,
                      paymentType |-> pt, customerName |-> cn, vatRate |-> vr,
                      totalAmount |-> totalAmount, subtotal |-> totalAmount,
                      vatAmount |-> vatAmount,
                      totalWithVat |-> TotalWithVatOf(totalAmount, vatAmount),
                      customerId |-> 0, saleId |-> 0, idx |-> 0, adj |-> NoAdj,
                      createdAt |-> now],
                  IF pt = "credit" /\ cn # NoName THEN "sale_findCustomer"
                  ELSE "sale_createSale")
    /\ UNCHANGED <<stockVars, saleVars, shiftVars, invoiceVars, now>>

\* getCustomerByName(name, userId): the first customer of that name, 0 when none.
CustomerByName(name, userId) ==
    LET found == {i \in 1..Len(customers) :
                     customers[i].name = name /\ customers[i].userId = userId}
    IN IF found = {} THEN 0 ELSE CHOOSE i \in found : \A j \in found : i <= j

SaleFindCustomer(p) ==
    /\ pc[p] = "sale_findCustomer"
    /\ Goto(p, [lv[p] EXCEPT !.customerId = CustomerByName(lv[p].customerName, lv[p].userId)],
            "sale_customerWrite")
    /\ UNCHANGED <<stockVars, saleVars, shiftVars, invoiceVars, now>>

\* createCustomer with totalWithVat.toFixed(2), parsed back, as first debt,
\* or updateCustomerDebt: $inc of the debt by totalWithVat.
SaleCustomerWrite(p) ==
    /\ pc[p] = "sale_customerWrite"
    /\ LET l == lv[p] IN
       IF l.customerId = 0
       THEN /\ customers' = Append(customers, [userId |-> l.userId, name |-> l.customerName,
                                               totalDebt |->
                                                   ParseFloatToFixed2(l.totalWithVat)])
            /\ Goto(p, [l EXCEPT !.customerId = Len(customers) + 1, !.createdAt = now],
                    "sale_createSale")
       ELSE /\ customers' = [customers EXCEPT
                                ![l.customerId].totalDebt = Plus(@, l.totalWithVat)]
            /\ Goto(p, [l EXCEPT !.createdAt = now], "sale_createSale")
    /\ UNCHANGED <<stockVars, sales, saleItems, shiftVars, invoiceVars, now>>

\* The Sale document createSale saves.  The timestamps plugin sets createdAt
\* when save() is called, which is when the handler's previous round trip
\* returned (the arrival of the request when there was none); the insert
\* lands later.
SaleDoc(l, t) ==
    [userId |-> l.userId, customerId |-> l.customerId, totalAmount |-> l.totalAmount,
     paymentType |-> l.paymentType, vatRate |-> {l.vatRate}, vatAmount |-> l.vatAmount,
     subtotal |-> l.subtotal, totalWithVat |-> l.totalWithVat, createdAt |-> t]

SaleCreateSale(p) ==
    /\ pc[p] = "sale_createSale"
    /\ sales' = Append(sales, SaleDoc(lv[p], lv[p].createdAt))
    /\ Goto(p, [lv[p] EXCEPT !.saleId = Len(sales) + 1], "sale_createItems")
    /\ UNCHANGED <<stockVars, saleItems, customers, shiftVars, invoiceVars, now>>

SaleItemDocs(l) ==
    [i \in 1..Len(l.items) |->
        [saleId |-> l.saleId, productId |-> l.items[i].productId,
         quantity |-> l.items[i].quantity, unitPrice |-> l.items[i].unitPrice,
         totalPrice |-> l.items[i].unitPrice * l.items[i].quantity]]

\* createSaleItems, then the loop over the line items starts.
SaleCreateItems(p) ==
    /\ pc[p] = "sale_createItems"
    /\ saleItems' = saleItems \o SaleItemDocs(lv[p])
    /\ AfterAdjust(p)
    /\ UNCHANGED <<stockVars, sales, customers, shiftVars, invoiceVars, now>>

(***************************************************************************)
(* Initial states.  Every specification below starts from a database the   *)
(* handlers can produce.                                                   *)
(***************************************************************************)
InitRequests ==
    /\ pc = [p \in Procs |-> "idle"]
    /\ lv = [p \in Procs |-> NoLocals]
    /\ ret = [p \in Procs |-> "none"]

\* A product as products.create leaves it.
NewProduct(u, s) == ProductDoc(u, {s}, {})

InitEmpty ==
    /\ products = <<>> /\ movements = <<>> /\ objectIds = 0
    /\ sales = <<>> /\ saleItems = <<>> /\ customers = <<>>
    /\ shifts = <<>> /\ invoices = <<>> /\ settingsDocs = <<>>
    /\ now = 0
    /\ InitRequests

\* One product of shop A, just created with stock 2 or stock 7.
InitOneProduct ==
    /\ \E s \in {2, 7} : products = <<NewProduct("A", s)>>
    /\ movements = <<>> /\ objectIds = 0
    /\ sales = <<>> /\ saleItems = <<>> /\ customers = <<>>
    /\ shifts = <<>> /\ invoices = <<>> /\ settingsDocs = <<>>
    /\ now = 0
    /\ InitRequests

(***************************************************************************)
(* SpecDecr: concurrent sale decrements (negative deltas) of one product.  *)
(***************************************************************************)
DecrCall(p) == AdjustCall(p, {1}, {-5, -3, -1}, {"SALE"}, {NullNote})

NextDecr == \E p \in Procs : DecrCall(p) \/ AdjustUpdate(p) \/ AdjustMovement(p)

SpecDecr == InitOneProduct /\ [][NextDecr]_vars

(***************************************************************************)
(* SpecAdjust: concurrent adjustProductStock calls of either sign, with    *)
(* valid and invalid input, on an existing and on a missing product.       *)
(***************************************************************************)
AdjustNotes == {NullNote, TextNote(3), TextNote(NoteMaxLen + 1)}

AnyAdjustCall(p) == AdjustCall(p, {1, 2}, {-5, 0, 3}, {"ADJUST"}, AdjustNotes)

NextAdjust == \E p \in Procs : AnyAdjustCall(p) \/ AdjustUpdate(p) \/ AdjustMovement(p)

SpecAdjust == InitOneProduct /\ [][NextAdjust]_vars

(***************************************************************************)
(* The stock ledger's properties.                                          *)
(***************************************************************************)
\* Total quantity of the movements of product i of one type.
RECURSIVE MovedTotal(_, _, _)
MovedTotal(ms, i, type) ==
    IF ms = <<>> THEN 0
    ELSE (IF Head(ms).productId = i /\ Head(ms).type = type THEN Head(ms).quantity ELSE 0)
         + MovedTotal(Tail(ms), i, type)

\* C1: under concurrent sale decrements of one product its stock is never
\* negative, and the decrements that succeeded never add up to more than
\* the stock there was: of two decrements that together exceed the stock,
\* one is rejected.
C1_StockNeverNegative ==
    \A i \in ProductIds :
        /\ products[i].stock >= 0
        /\ MovedTotal(movements, i, "OUT") <= products[i].createdStock
        /\ AllIdle => products[i].stock
                        = products[i].createdStock - MovedTotal(movements, i, "OUT")

\* C1 witness: stock 7, two requests ran, the decrement of 5 succeeded
\* (stock 2) and the other decrement (of 3 or 5) was rejected.
C1_Witness ==
    \E p, q \in Procs :
        /\ p # q
        /\ Idle(p) /\ ret[p] = "ok"
        /\ Idle(q) /\ ret[q] = "insufficient_stock"
        /\ products[1].createdStock = 7 /\ products[1].stock = 2
        /\ Len(movements) = 1 /\ movements[1].quantity = 5

\* The step of request p that runs the findOneAndUpdate of adjustProductStock.
AdjustUpdateStep(p) == pc[p] = "adj_update" /\ pc'[p] # "adj_update"

\* The step of request p that follows a stock change that was applied.
AdjustMovementStep(p) == pc[p] = "adj_movement" /\ pc'[p] # "adj_movement"

\* C2: every stock change that adjustProductStock applied is followed by the
\* append of exactly one movement of that product with quantity
\* |quantityChange|, type IN for a positive and OUT for a negative change,
\* and the caller's source and note.
C2_EveryStockChangeHasItsMovement ==
    [][\A p \in Procs :
         AdjustMovementStep(p) =>
            LET a == lv[p].adj IN
            movements' = Append(movements,
                [_id |-> a.movementId,
                 productId |-> a.productId,
                 type |-> IF a.quantityChange > 0 THEN "IN" ELSE "OUT",
                 quantity |-> Abs(a.quantityChange),
                 source |-> a.source,
                 note |-> a.note])]_vars

\* C4: a decrement larger than the product's current stock is rejected with
\* the insufficient-stock error, changes no stock and appends no movement.
C4_InsufficientStockRejected ==
    [][\A p \in Procs :
         (/\ AdjustUpdateStep(p)
          /\ ProductExists(lv[p].adj.productId)
          /\ lv[p].adj.quantityChange < 0
          /\ Abs(lv[p].adj.quantityChange) > products[lv[p].adj.productId].stock)
         => (/\ pc'[p] = "idle"
             /\ ret'[p] = "insufficient_stock"
             /\ products' = products
             /\ movements' = movements)]_vars

\* C4 witness: stock 2, a decrement (of 5, the only one requested here) was
\* rejected, stock is still 2 and the ledger is empty.
C4_Witness ==
    \E p \in Procs :
        /\ Idle(p) /\ ret[p] = "insufficient_stock"
        /\ products[1].createdStock = 2 /\ products[1].stock = 2
        /\ movements = <<>>

(***************************************************************************)
(* SpecCatalog: the catalog, stock-in and sale handlers of two shops.      *)
(***************************************************************************)
Item(id, q, price) == [productId |-> id, quantity |-> q, unitPrice |-> price]

\* The inputs of the catalog's requests.
CatalogStocks == {{-1}, {2}}
CatalogReorderPoints == {{}, {9}, {-1}}
CatalogNewStocks == {{}, {7}}
CatalogRows ==
    {<<[stock |-> {2}, reorderPoint |-> {}], [stock |-> {3}, reorderPoint |-> {1}]>>,
     <<[stock |-> {}, reorderPoint |-> {-1}]>>}
CatalogItems == {<<Item(1, 1, 100)>>, <<Item(1, 2, 100), Item(2, 1, 100)>>}

CatalogCreate(p) == ProductsCreate(p, {"A"}, CatalogStocks, CatalogReorderPoints)
CatalogUpdate(p) == ProductsUpdate(p, {"A"}, {1}, CatalogNewStocks, {{}})
CatalogDelete(p) == ProductsDelete(p, {"A"}, {1})
CatalogImport(p) == ProductsImport(p, {"A"}, CatalogRows)
CatalogStockIn(p) == StockInStart(p, {"A"}, {1, 2}, {3}, {NullNote})
CatalogSale(p) == SaleStart(p, {"A"}, CatalogItems, {"cash"}, {NoName}, {0})

NextCatalog ==
    \E p \in Procs :
        \/ CatalogCreate(p) \/ CatalogUpdate(p) \/ CatalogDelete(p) \/ CatalogImport(p)
        \/ CatalogStockIn(p) \/ StockInFind(p)
        \/ CatalogSale(p) \/ SaleCreateSale(p) \/ SaleCreateItems(p)
        \/ AdjustUpdate(p) \/ AdjustMovement(p)

SpecCatalog == InitEmpty /\ [][NextCatalog]_vars

\* C3: once every catalog, stock-in and sale operation has completed, the
\* movements of each product, counted +quantity for IN and -quantity for
\* OUT, add up to its current stock minus its stock at creation.
C3_MovementsAccountForStock ==
    AllIdle =>
        \A i \in ProductIds :
            MovedTotal(movements, i, "IN") - MovedTotal(movements, i, "OUT")
                = products[i].stock - products[i].createdStock

(***************************************************************************)
(* Shift ledger (routers.ts 590-702, db.ts 1013-1243).                     *)
(* The clock counts ticks; a calendar day is DayLen ticks long.            *)
(***************************************************************************)
MaxTime == 2                   \* the clock stops here
DayLen == 2                    \* ticks per calendar day
MaxShifts == 2                 \* shift.open stops at this many shifts

Tick ==
    /\ now < MaxTime
    /\ now' = now + 1
    /\ UNCHANGED <<stockVars, saleVars, shiftVars, invoiceVars, pc, lv, ret>>

\* normalizeDate: the start of the day of t.
normalizeDate(t) == t - (t % DayLen)

\* getTodayDate at clock value t.
getTodayDate(t) == normalizeDate(t)

\* The open shifts the findOne of getOpenShiftToday can return when it lands:
\* { userId, shiftDate: today, status: "open" }, today being the getTodayDate()
\* the function took at clock value t, when it was called.
OpenShiftsToday(userId, t) ==
    {i \in 1..Len(shifts) :
        /\ shifts[i].userId = userId
        /\ shifts[i].shiftDate = getTodayDate(t)
        /\ shifts[i].status = "open"}

\* getMaxShiftNumberToday: $max of shiftNumber over { userId, shiftDate: today }, 0 when none.
getMaxShiftNumberToday(userId, t) ==
    LET today == {i \in 1..Len(shifts) :
                     shifts[i].userId = userId /\ shifts[i].shiftDate = getTodayDate(t)}
    IN IF today = {} THEN 0
       ELSE LET top == CHOOSE i \in today :
                          \A j \in today : shifts[j].shiftNumber <= shifts[i].shiftNumber
            IN shifts[top].shiftNumber

\* The Shift document shift.open hands to createShift at clock value t.
NewShift(userId, shiftNumber, openingCash, t) ==
    [userId |-> userId, shiftNumber |-> shiftNumber, shiftDate |-> normalizeDate(t),
     startTime |-> t, endTime |-> {}, openingCash |-> openingCash, closingCash |-> {},
     expectedCash |-> openingCash, actualCash |-> {}, cashDifference |-> {},
     totalSales |-> 0, cashSales |-> 0, creditSales |-> 0, saleCount |-> 0,
     status |-> "open"]

\* The code that runs between two round trips runs when the first of them
\* returns: a new Date() it takes is the clock of that moment, and the
\* locals keep it as `at` until the next round trip, which lands later.

\* shift.open arrives.  The input schema (openingCash: z.number().min(0))
\* rejects the request before the handler runs; otherwise getOpenShiftToday
\* is called, takes its today and sends its findOne.
ShiftOpenArrive(p, users, cashes) ==
    /\ Idle(p)
    /\ Len(shifts) < MaxShifts
    /\ \E u \in users, c \in cashes :
         IF c < 0
         THEN Done(p, "bad_request")
         ELSE Begin(p, [op |-> "shiftOpen", userId |-> u, openingCash |-> c,
                        shiftNumber |-> 0, at |-> now],
                    "open_check")
    /\ UNCHANGED <<stockVars, saleVars, shiftVars, invoiceVars, now>>

\* The findOne of getOpenShiftToday lands and is answered from the shifts of
\* that moment; with a shift the handler throws, with none
\* getMaxShiftNumberToday is called and takes its today.
ShiftOpenCheck(p) ==
    /\ pc[p] = "open_check"
    /\ IF OpenShiftsToday(lv[p].userId, lv[p].at) # {}
       THEN Finish(p, "shift_already_open")
       ELSE Goto(p, [lv[p] EXCEPT !.at = now], "open_max")
    /\ UNCHANGED <<stockVars, saleVars, shiftVars, invoiceVars, now>>

\* The aggregate of getMaxShiftNumberToday returns; shiftNumber = max + 1,
\* today = new Date(), startTime = new Date(), and createShift is called.
ShiftOpenMax(p) ==
    /\ pc[p] = "open_max"
    /\ Goto(p, [lv[p] EXCEPT
                  !.shiftNumber = getMaxShiftNumberToday(lv[p].userId, lv[p].at) + 1,
                  !.at = now],
            "open_create")
    /\ UNCHANGED <<stockVars, saleVars, shiftVars, invoiceVars, now>>

\* The save of createShift lands: the new open shift is in the collection.
ShiftOpenCreate(p) ==
    /\ pc[p] = "open_create"
    /\ shifts' = Append(shifts, NewShift(lv[p].userId, lv[p].shiftNumber,
                                         lv[p].openingCash, lv[p].at))
    /\ Finish(p, "ok")
    /\ UNCHANGED <<stockVars, saleVars, invoiceVars, now>>

\* createdAt: { $gte: startTime, $lt: endTime }.
InWindow(t, startTime, endTime) == t >= startTime /\ t < endTime

\* $sum of totalAmount over the shop's sales of one payment type in the window.
RECURSIVE SumTotalAmount(_, _, _, _, _)
SumTotalAmount(ss, userId, paymentType, startTime, endTime) ==
    IF ss = <<>> THEN 0
    ELSE (IF /\ Head(ss).userId = userId
             /\ Head(ss).paymentType = paymentType
             /\ InWindow(Head(ss).createdAt, startTime, endTime)
          THEN Head(ss).totalAmount ELSE 0)
         + SumTotalAmount(Tail(ss), userId, paymentType, startTime, endTime)

\* countDocuments of the shop's sales in the window.
CountSales(userId, startTime, endTime) ==
    Cardinality({i \in 1..Len(sales) :
                    /\ sales[i].userId = userId
                    /\ InWindow(sales[i].createdAt, startTime, endTime)})

\* What getSalesSummaryForShift returns from the answers of its three queries.
getSalesSummaryForShift(cashResult, creditResult, totalResult) ==
    [totalSales |-> cashResult + creditResult, cashSales |-> cashResult,
     creditSales |-> creditResult, saleCount |-> totalResult]

\* shift.close arrives.  The input schema (closingCash: z.number().min(0))
\* rejects the request before the handler runs; otherwise getOpenShiftToday
\* is called, takes its today and sends its findOne.
ShiftCloseArrive(p, users, cashes) ==
    /\ Idle(p)
    /\ \E u \in users, c \in cashes :
         IF c < 0
         THEN Done(p, "bad_request")
         ELSE Begin(p, [op |-> "shiftClose", userId |-> u, closingCash |-> c,
                        at |-> now],
                    "close_find")
    /\ UNCHANGED <<stockVars, saleVars, shiftVars, invoiceVars, now>>

\* The findOne of getOpenShiftToday lands; the order in which it meets several
\* matching shifts is not fixed.  With no shift the handler throws; with a
\* shift, endTime = new Date() and getSalesSummaryForShift sends its three
\* queries, none of which is answered yet.
ShiftCloseFind(p) ==
    /\ pc[p] = "close_find"
    /\ LET l == lv[p] IN
       IF OpenShiftsToday(l.userId, l.at) = {}
       THEN Finish(p, "no_open_shift")
       ELSE \E i \in OpenShiftsToday(l.userId, l.at) :
              Goto(p, [op |-> "shiftClose", userId |-> l.userId,
                       closingCash |-> l.closingCash,
                       shiftId |-> i, startTime |-> shifts[i].startTime,
                       openingCash |-> shifts[i].openingCash, endTime |-> now,
                       cashResult |-> {}, creditResult |-> {}, totalResult |-> {}],
                   "close_summary")
    /\ UNCHANGED <<stockVars, saleVars, shiftVars, invoiceVars, now>>

CashDifference(actualCash, expectedCash) == actualCash - expectedCash

\* One of the three queries of Promise.all has landed and l holds its answer.
\* While an answer is missing the handler waits; with the last answer the
\* summary and the figures are computed and closeShift is called.
ShiftCloseSummary(p, l) ==
    IF l.cashResult = {} \/ l.creditResult = {} \/ l.totalResult = {}
    THEN Goto(p, l, "close_summary")
    ELSE LET summary == getSalesSummaryForShift(OrElse(l.cashResult, 0),
                                                OrElse(l.creditResult, 0),
                                                OrElse(l.totalResult, 0))
             expectedCash == l.openingCash + summary.cashSales
         IN Goto(p, [op |-> "shiftClose", userId |-> l.userId,
                     closingCash |-> l.closingCash,
                     shiftId |-> l.shiftId, startTime |-> l.startTime,
                     openingCash |-> l.openingCash, endTime |-> l.endTime,
                     expectedCash |-> expectedCash, actualCash |-> l.closingCash,
                     cashDifference |-> CashDifference(l.closingCash, expectedCash),
                     totalSales |-> summary.totalSales, cashSales |-> summary.cashSales,
                     creditSales |-> summary.creditSales,
                     saleCount |-> summary.saleCount],
                 "close_update")

\* The three queries are sent together and land one by one, in any order,
\* each answered from the sales of the moment it lands.
\* Sale.aggregate over the cash sales of the window lands.
ShiftCloseCash(p) ==
    /\ pc[p] = "close_summary"
    /\ lv[p].cashResult = {}
    /\ LET l == lv[p] IN
       ShiftCloseSummary(p, [l EXCEPT !.cashResult =
           {SumTotalAmount(sales, l.userId, "cash", l.startTime, l.endTime)}])
    /\ UNCHANGED <<stockVars, saleVars, shiftVars, invoiceVars, now>>

\* Sale.aggregate over the credit sales of the window lands.
ShiftCloseCredit(p) ==
    /\ pc[p] = "close_summary"
    /\ lv[p].creditResult = {}
    /\ LET l == lv[p] IN
       ShiftCloseSummary(p, [l EXCEPT !.creditResult =
           {SumTotalAmount(sales, l.userId, "credit", l.startTime, l.endTime)}])
    /\ UNCHANGED <<stockVars, saleVars, shiftVars, invoiceVars, now>>

\* Sale.countDocuments over the sales of the window lands.
ShiftCloseCount(p) ==
    /\ pc[p] = "close_summary"
    /\ lv[p].totalResult = {}
    /\ LET l == lv[p] IN
       ShiftCloseSummary(p, [l EXCEPT !.totalResult =
           {CountSales(l.userId, l.startTime, l.endTime)}])
    /\ UNCHANGED <<stockVars, saleVars, shiftVars, invoiceVars, now>>

\* closeShift: findByIdAndUpdate writes the figures and status "closed".
ShiftCloseUpdate(p) ==
    /\ pc[p] = "close_update"
    /\ LET l == lv[p] IN
       shifts' = [shifts EXCEPT ![l.shiftId] =
                    [@ EXCEPT !.endTime = {l.endTime}, !.closingCash = {l.closingCash},
                              !.expectedCash = l.expectedCash, !.actualCash = {l.actualCash},
                              !.cashDifference = {l.cashDifference},
                              !.totalSales = l.totalSales, !.cashSales = l.cashSales,
                              !.creditSales = l.creditSales, !.saleCount = l.saleCount,
                              !.status = "closed"]]
    /\ Finish(p, "ok")
    /\ UNCHANGED <<stockVars, saleVars, invoiceVars, now>>

(***************************************************************************)
(* SpecShift: shop A opens and closes shifts over two calendar days, on    *)
(* both request slots.                                                     *)
(***************************************************************************)
ShiftOpen(p) == ShiftOpenArrive(p, {"A"}, {500})
ShiftClose(p) == ShiftCloseArrive(p, {"A"}, {1680})

NextShift ==
    \/ Tick
    \/ \E p \in Procs :
        \/ ShiftOpen(p) \/ ShiftOpenCheck(p) \/ ShiftOpenMax(p) \/ ShiftOpenCreate(p)
        \/ ShiftClose(p) \/ ShiftCloseFind(p)
        \/ ShiftCloseCash(p) \/ ShiftCloseCredit(p) \/ ShiftCloseCount(p)
        \/ ShiftCloseUpdate(p)

InitShift ==
    /\ products = <<NewProduct("A", 2)>>
    /\ movements = <<>> /\ objectIds = 0
    /\ sales = <<>> /\ saleItems = <<>> /\ customers = <<>>
    /\ shifts = <<>> /\ invoices = <<>> /\ settingsDocs = <<>>
    /\ now = 0
    /\ InitRequests

SpecShift == InitShift /\ [][NextShift]_vars

(***************************************************************************)
(* SpecFigures: shop A opens and closes shifts on one request slot while   *)
(* it sells for cash and on credit from one product on the other.          *)
(* Requests with a negative cash amount are among those that arrive.       *)
(***************************************************************************)
FiguresOpen(p) == p = "r1" /\ ShiftOpenArrive(p, {"A"}, {-1, 500})
FiguresClose(p) == p = "r1" /\ ShiftCloseArrive(p, {"A"}, {-1, 1680})
FiguresSale(p) ==
    /\ p = "r2"
    /\ \/ SaleStart(p, {"A"}, {<<Item(1, 1, 1200)>>}, {"cash"}, {NoName}, {0})
       \/ SaleStart(p, {"A"}, {<<Item(1, 1, 300)>>}, {"credit"}, {NoName}, {0})

NextFigures ==
    \/ Tick
    \/ \E p \in Procs :
        \/ FiguresOpen(p) \/ ShiftOpenCheck(p) \/ ShiftOpenMax(p) \/ ShiftOpenCreate(p)
        \/ FiguresClose(p) \/ ShiftCloseFind(p)
        \/ ShiftCloseCash(p) \/ ShiftCloseCredit(p) \/ ShiftCloseCount(p)
        \/ ShiftCloseUpdate(p)
        \/ FiguresSale(p) \/ SaleCreateSale(p) \/ SaleCreateItems(p)
        \/ AdjustUpdate(p) \/ AdjustMovement(p)

SpecFigures == InitShift /\ [][NextFigures]_vars

(***************************************************************************)
(* Properties of the shift handlers.                                       *)
(***************************************************************************)
OpenShiftsOf(userId) ==
    {i \in 1..Len(shifts) : shifts[i].userId = userId /\ shifts[i].status = "open"}

\* C5: in every reachable state each shop has at most one Shift record with
\* status "open", whatever the interleaving of shift.open and shift.close
\* calls and whatever the calendar days they are made on.
C5_AtMostOneOpenShift ==
    \A u \in Users : Cardinality(OpenShiftsOf(u)) <= 1

\* Sales are never deleted and a new one goes to the end, so the sales the
\* collection held at any earlier moment are the first n of the present ones.
\* Of these, the sales of one shop and payment type created in
\* [startTime, endTime).
SalesUpTo(n, userId, paymentTypes, startTime, endTime) ==
    {i \in 1..n :
        /\ sales[i].userId = userId
        /\ sales[i].paymentType \in paymentTypes
        /\ startTime <= sales[i].createdAt
        /\ sales[i].createdAt < endTime}

SalesInWindow(userId, paymentTypes, startTime, endTime) ==
    SalesUpTo(Len(sales), userId, paymentTypes, startTime, endTime)

RECURSIVE TotalOver(_)
TotalOver(S) ==
    IF S = {} THEN 0
    ELSE LET i == CHOOSE j \in S : TRUE
         IN sales[i].totalAmount + TotalOver(S \ {i})

\* The six figures of the claim for opening cash O, counted cash A and the
\* window's sales among the first n.
FiguresFor(n, userId, O, A, startTime, endTime, f) ==
    LET C == TotalOver(SalesUpTo(n, userId, {"cash"}, startTime, endTime))
        R == TotalOver(SalesUpTo(n, userId, {"credit"}, startTime, endTime))
        N == Cardinality(SalesUpTo(n, userId, {"cash", "credit"}, startTime, endTime))
    IN /\ f.expectedCash = O + C
       /\ f.cashDifference = A - (O + C)
       /\ f.totalSales = C + R
       /\ f.cashSales = C
       /\ f.creditSales = R
       /\ f.saleCount = N

\* C6: shift.close on an open shift with opening cash O and counted cash A,
\* when the shop's sales created in [startTime, now) have cash total C, credit
\* total R and count N, returns and stores expectedCash = O + C,
\* cashDifference = A - (O + C), totalSales = C + R, cashSales = C,
\* creditSales = R and saleCount = N.  now is the endTime the handler took;
\* the sales are those the collection held at one moment up to the close,
\* whichever moment that is: the six figures describe one state of the sales.
C6_ShiftCloseFigures ==
    [][\A p \in Procs :
         (pc[p] = "close_update" /\ pc'[p] = "idle")
            => LET l == lv[p]
                   stored == shifts'[l.shiftId]
               IN /\ ret'[p] = "ok"
                  /\ stored.status = "closed"
                  /\ stored.endTime = {l.endTime}
                  /\ stored.closingCash = {l.closingCash}
                  /\ stored.actualCash = {l.closingCash}
                  /\ stored.expectedCash = l.expectedCash
                  /\ stored.cashDifference = {l.cashDifference}
                  /\ stored.totalSales = l.totalSales
                  /\ stored.cashSales = l.cashSales
                  /\ stored.creditSales = l.creditSales
                  /\ stored.saleCount = l.saleCount
                  /\ \E n \in 0..Len(sales) :
                        FiguresFor(n, l.userId, l.openingCash, l.closingCash,
                                   l.startTime, l.endTime, l)
      ]_vars

(***************************************************************************)
(* Settings and full tax invoices (db.ts 1565-1757, routers.ts 467-586).   *)
(* An invoice number `TAX-${year}-${digits}` is kept as its year and the   *)
(* sequence of its decimal digits; strings compare as MongoDB sorts them.  *)
(***************************************************************************)
MaxInvoices == 2               \* fullTaxInvoice.create stops at this many invoices
PadWidth == 6                  \* padStart(6, "0")

\* new Date().getFullYear(): the clock's two days are 31 December 2026 and
\* 1 January 2027.
getFullYear(t) == 2026 + (t \div DayLen)

\* String(n) for n >= 0, as decimal digits.
RECURSIVE ToDigits(_)
ToDigits(n) == IF n < 10 THEN <<n>> ELSE Append(ToDigits(n \div 10), n % 10)

\* padStart(width, "0").
RECURSIVE PadStart(_, _)
PadStart(ds, width) == IF Len(ds) >= width THEN ds ELSE PadStart(<<0>> \o ds, width)

\* parseInt(digits, 10).
RECURSIVE ParseInt(_)
ParseInt(ds) ==
    IF ds = <<>> THEN 0 ELSE 10 * ParseInt(SubSeq(ds, 1, Len(ds) - 1)) + ds[Len(ds)]

\* a < b for two digit strings in the order of a string sort.
StrLess(a, b) ==
    \E k \in 1..Len(b) :
        /\ k <= Len(a) + 1
        /\ \A j \in 1..(k - 1) : a[j] = b[j]
        /\ (k = Len(a) + 1 \/ a[k] < b[k])

FormatInvoiceNumber(year, sequence) ==
    [year |-> year, digits |-> PadStart(ToDigits(sequence), PadWidth)]

\* sequence = lastSequence + 1.
NextSequenceSkipping(lastSequence) == lastSequence + 2
NextSequence(lastSequence) == lastSequence + 1

\* generateInvoiceNumber: the shop's invoice of this year with the greatest
\* invoiceNumber string gives the last sequence; 1 when there is none.
generateInvoiceNumber(userId, t) ==
    LET year == getFullYear(t)
        mine == {i \in 1..Len(invoices) :
                    /\ invoices[i].userId = userId
                    /\ invoices[i].invoiceNumber.year = year}
    IN IF mine = {} THEN FormatInvoiceNumber(year, 1)
       ELSE LET last == CHOOSE i \in mine :
                           \A j \in mine \ {i} :
                              StrLess(invoices[j].invoiceNumber.digits,
                                      invoices[i].invoiceNumber.digits)
            IN FormatInvoiceNumber(
                   year, NextSequence(ParseInt(invoices[last].invoiceNumber.digits)))

\* sale.vatRate ?? 0.
SaleVatRate(sale) == IF sale.vatRate = {} THEN 0 ELSE CHOOSE v \in sale.vatRate : TRUE

\* vatRate <= 0: the sale carries no VAT.
NotEligibleOnlyNegative(vatRate) == vatRate < 0
NotEligible(vatRate) == vatRate <= 0

\* The unique indexes of FullTaxInvoice on saleId and on invoiceNumber.
SaleIdNeverTaken(saleId) == FALSE
SaleIdTaken(saleId) == \E i \in 1..Len(invoices) : invoices[i].saleId = saleId

InvoiceNumberNeverTaken(number) == FALSE
InvoiceNumberTaken(number) ==
    \E i \in 1..Len(invoices) : invoices[i].invoiceNumber = number

\* String.prototype.trim on the strings the model uses.
Trim(str) == IF str = " " THEN "" ELSE str

\* !field || !field.trim()
BlankOnlyEmpty(str) == str = ""
Blank(str) == str = "" \/ Trim(str) = ""

\* missingFields: the labels pushed for the blank seller fields, in the
\* order name, address, tax id.  The labels stand for the Thai texts of the
\* source: shop name, shop address, taxpayer identification number.
MissingFields(settings) ==
    (IF Blank(settings.sellerName) THEN <<"shop name">> ELSE <<>>)
    \o (IF Blank(settings.sellerAddress) THEN <<"shop address">> ELSE <<>>)
    \o (IF Blank(settings.sellerTaxId) THEN <<"taxpayer id">> ELSE <<>>)

\* missingFields.length > 0
SellerIncomplete(settings) == Len(MissingFields(settings)) > 0

\* new Settings({ singleton: "settings", vatEnabled: false }) with the schema defaults.
DefaultSettings ==
    [singleton |-> {"settings"}, vatEnabled |-> FALSE,
     sellerName |-> "", sellerAddress |-> "", sellerTaxId |-> ""]

\* fullTaxInvoice.create: the request arrives and Sale.findById is awaited;
\* the sale is looked up by its id alone.
InvoiceCreateStart(p, users, saleIds) ==
    /\ Idle(p)
    /\ Len(invoices) < MaxInvoices
    /\ \E u \in users, sid \in saleIds :
         IF sid \notin 1..Len(sales)
         THEN Done(p, "sale_not_found")
         ELSE IF NotEligible(SaleVatRate(sales[sid]))
         THEN Done(p, "not_eligible")
         ELSE Begin(p, [op |-> "invoiceCreate", userId |-> u, saleId |-> sid],
                    "inv_existing")
    /\ UNCHANGED <<stockVars, saleVars, shiftVars, invoiceVars, now>>

\* FullTaxInvoice.findOne({ saleId }) is awaited.
InvoiceFindExistingSkipped(p) ==
    /\ pc[p] = "inv_existing"
    /\ Goto(p, lv[p], "settings_singleton")
    /\ UNCHANGED <<stockVars, saleVars, shiftVars, invoiceVars, now>>
InvoiceFindExisting(p) ==
    /\ pc[p] = "inv_existing"
    /\ IF \E i \in 1..Len(invoices) : invoices[i].saleId = lv[p].saleId
       THEN Finish(p, "already_exists")
       ELSE Goto(p, lv[p], "settings_singleton")
    /\ UNCHANGED <<stockVars, saleVars, shiftVars, invoiceVars, now>>

\* A handler throws an error whose message carries detail.
Throw(p, outcome, detail) ==
    /\ pc' = [pc EXCEPT ![p] = "idle"]
    /\ ret' = [ret EXCEPT ![p] = outcome]
    /\ lv' = [lv EXCEPT ![p] = [op |-> "none", message |-> detail]]

\* createFullTaxInvoice after getSettings has returned settings: the seller
\* fields are checked and kept; the error message joins the missing labels.
\* generateInvoiceNumber is called and takes its year from the clock.
InvoiceAfterSettings(p, settings) ==
    IF SellerIncomplete(settings)
    THEN Throw(p, "seller_incomplete", MissingFields(settings))
    ELSE Goto(p, [op |-> "invoiceCreate", userId |-> lv[p].userId, saleId |-> lv[p].saleId,
                  sellerName |-> settings.sellerName,
                  sellerAddress |-> settings.sellerAddress,
                  sellerTaxId |-> settings.sellerTaxId, at |-> now],
              "inv_number")

\* What follows getSettings in its caller: createFullTaxInvoice checks the
\* seller fields, updateSettings goes on to its findOneAndUpdate, and
\* settings.get returns the four fields of the document.
AfterSettings(p, settings) ==
    IF lv[p].op = "invoiceCreate" THEN InvoiceAfterSettings(p, settings)
    ELSE IF lv[p].op = "settingsUpdate"
    THEN Goto(p, [op |-> "settingsUpdate", updates |-> lv[p].updates], "settings_write")
    ELSE /\ pc' = [pc EXCEPT ![p] = "idle"]
         /\ ret' = [ret EXCEPT ![p] = "ok"]
         /\ lv' = [lv EXCEPT ![p] =
                     [op |-> "none", vatEnabled |-> settings.vatEnabled,
                      sellerName |-> settings.sellerName,
                      sellerAddress |-> settings.sellerAddress,
                      sellerTaxId |-> settings.sellerTaxId]]

\* getSettings: Settings.findOne({ singleton: "settings" }).
SettingsFindSingleton(p) ==
    /\ pc[p] = "settings_singleton"
    /\ LET found == {i \in 1..Len(settingsDocs) : settingsDocs[i].singleton = {"settings"}}
       IN IF found # {}
          THEN \E i \in found : AfterSettings(p, settingsDocs[i])
          ELSE Goto(p, lv[p], "settings_any")
    /\ UNCHANGED <<stockVars, saleVars, shiftVars, invoiceVars, now>>

\* getSettings: Settings.findOne() for a document stored without the singleton field.
SettingsFindAny(p) ==
    /\ pc[p] = "settings_any"
    /\ IF settingsDocs # <<>>
       THEN \E i \in 1..Len(settingsDocs) :
              Goto(p, [k \in DOMAIN lv[p] \cup {"old"} |->
                          IF k = "old" THEN settingsDocs[i] ELSE lv[p][k]],
                   "settings_migrate")
       ELSE Goto(p, lv[p], "settings_create")
    /\ UNCHANGED <<stockVars, saleVars, shiftVars, invoiceVars, now>>

\* getSettings: Settings.updateOne({ _id }, { $set: { singleton } }).  The
\* schema declares singleton immutable, so the update changes nothing in the
\* stored document; the caller goes on with { ...oldSettings, singleton }.
SettingsMigrate(p) ==
    /\ pc[p] = "settings_migrate"
    /\ AfterSettings(p, [lv[p].old EXCEPT !.singleton = {"settings"}])
    /\ UNCHANGED <<stockVars, saleVars, shiftVars, invoiceVars, now>>

\* getSettings: the default document is saved under the unique singleton index.
SettingsCreate(p) ==
    /\ pc[p] = "settings_create"
    /\ IF \E i \in 1..Len(settingsDocs) : settingsDocs[i].singleton = {"settings"}
       THEN /\ Finish(p, "duplicate_key")
            /\ UNCHANGED settingsDocs
       ELSE /\ settingsDocs' = Append(settingsDocs, DefaultSettings)
            /\ AfterSettings(p, DefaultSettings)
    /\ UNCHANGED <<stockVars, saleVars, shiftVars, invoices, now>>

\* The findOne of generateInvoiceNumber returns; the invoice is built with
\* issuedDate = new Date() and save() is called.
InvoiceGenerateNumber(p) ==
    /\ pc[p] = "inv_number"
    /\ Goto(p, [op |-> "invoiceCreate", userId |-> lv[p].userId, saleId |-> lv[p].saleId,
                sellerName |-> lv[p].sellerName, sellerAddress |-> lv[p].sellerAddress,
                sellerTaxId |-> lv[p].sellerTaxId,
                invoiceNumber |-> generateInvoiceNumber(lv[p].userId, lv[p].at),
                issuedDate |-> now],
            "inv_save")
    /\ UNCHANGED <<stockVars, saleVars, shiftVars, invoiceVars, now>>

\* The FullTaxInvoice document createFullTaxInvoice builds from its locals
\* and the sale it read.
NewInvoiceGross(l, sale, t) ==
    [userId |-> l.userId, saleId |-> l.saleId, invoiceNumber |-> l.invoiceNumber,
     sellerName |-> l.sellerName, sellerAddress |-> l.sellerAddress,
     sellerTaxId |-> l.sellerTaxId,
     subtotal |-> sale.subtotal + sale.vatAmount.whole, vatAmount |-> sale.vatAmount,
     totalWithVat |-> sale.totalWithVat,
     issuedDate |-> t, status |-> "issued"]
NewInvoice(l, sale, t) ==
    [userId |-> l.userId, saleId |-> l.saleId, invoiceNumber |-> l.invoiceNumber,
     sellerName |-> l.sellerName, sellerAddress |-> l.sellerAddress,
     sellerTaxId |-> l.sellerTaxId,
     subtotal |-> sale.subtotal, vatAmount |-> sale.vatAmount,
     totalWithVat |-> sale.totalWithVat,
     issuedDate |-> t, status |-> "issued"]

\* newInvoice.save() under the two unique indexes.
InvoiceSave(p) ==
    /\ pc[p] = "inv_save"
    /\ IF SaleIdTaken(lv[p].saleId) \/ InvoiceNumberTaken(lv[p].invoiceNumber)
       THEN /\ Finish(p, "duplicate_key")
            /\ UNCHANGED invoices
       ELSE /\ invoices' = Append(invoices,
                                   NewInvoice(lv[p], sales[lv[p].saleId], lv[p].issuedDate))
            /\ Finish(p, "ok")
    /\ UNCHANGED <<stockVars, saleVars, shiftVars, settingsDocs, now>>

\* fullTaxInvoice.cancel: FullTaxInvoice.findOne({ _id, userId }) is awaited.
InvoiceCancelStart(p, users, invoiceIds) ==
    /\ Idle(p)
    /\ \E u \in users, id \in invoiceIds :
         IF ~(id \in 1..Len(invoices) /\ invoices[id].userId = u)
         THEN Done(p, "invoice_not_found")
         ELSE IF invoices[id].status = "cancelled"
         THEN Done(p, "already_cancelled")
         ELSE Begin(p, [op |-> "invoiceCancel", userId |-> u, invoiceId |-> id],
                    "cancel_save")
    /\ UNCHANGED <<stockVars, saleVars, shiftVars, invoiceVars, now>>

\* invoice.status = "cancelled"
CancelledInvoiceToggled(invoice) ==
    [invoice EXCEPT !.status = IF @ = "issued" THEN "cancelled" ELSE "issued"]
CancelledInvoice(invoice) == [invoice EXCEPT !.status = "cancelled"]

\* invoice.save() writes the modified status.
InvoiceCancelSave(p) ==
    /\ pc[p] = "cancel_save"
    /\ invoices' = [invoices EXCEPT ![lv[p].invoiceId] = CancelledInvoice(@)]
    /\ Finish(p, "ok")
    /\ UNCHANGED <<stockVars, saleVars, shiftVars, settingsDocs, now>>

(***************************************************************************)
(* SpecInvoice: shops A and B issue and cancel full tax invoices over a    *)
(* New Year for sales already made: two of A and one of B with 7% VAT, one *)
(* of A without VAT, and one of A stored before sales carried VAT fields.  *)
(***************************************************************************)
\* A cash sale of one unit at 100 as sales.create stores it.
CashSale(u, vatPercent) ==
    SaleDoc([userId |-> u, customerId |-> 0, totalAmount |-> 100, paymentType |-> "cash",
             vatRate |-> vatPercent, vatAmount |-> VatAmountOf(100, vatPercent),
             subtotal |-> 100,
             totalWithVat |-> TotalWithVatOf(100, VatAmountOf(100, vatPercent))], 0)

\* A sale stored before the VAT fields existed: vatRate is absent.
LegacySale(u) == [CashSale(u, 0) EXCEPT !.vatRate = {}]

\* The movement of a sale of one unit; every sale of InitInvoice sold one
\* item, so the movement of the n-th sale is the n-th document built.
SaleMovement(productId, saleId) ==
    MovementOf([productId |-> productId, quantityChange |-> -1, source |-> "SALE",
                note |-> SaleNote(saleId), movementId |-> saleId])

SoldItem(saleId, productId) ==
    [saleId |-> saleId, productId |-> productId, quantity |-> 1, unitPrice |-> 100,
     totalPrice |-> 100]

\* The seller settings as settings.update leaves them when every field is given.
CompleteSettings ==
    [DefaultSettings EXCEPT !.vatEnabled = TRUE, !.sellerName = "Shop",
                            !.sellerAddress = "Road", !.sellerTaxId = "0105500000017"]

\* A settings document stored before the singleton field existed, its tax id
\* being one space.
LegacySettings == [CompleteSettings EXCEPT !.singleton = {}, !.sellerTaxId = " "]

InitInvoice ==
    /\ products = <<[NewProduct("A", 5) EXCEPT !.stock = 1],
                    [NewProduct("B", 5) EXCEPT !.stock = 4]>>
    /\ sales = <<CashSale("A", 7), CashSale("A", 7), CashSale("B", 7),
                 CashSale("A", 0), LegacySale("A")>>
    /\ saleItems = <<SoldItem(1, 1), SoldItem(2, 1), SoldItem(3, 2),
                     SoldItem(4, 1), SoldItem(5, 1)>>
    /\ movements = <<SaleMovement(1, 1), SaleMovement(1, 2), SaleMovement(2, 3),
                     SaleMovement(1, 4), SaleMovement(1, 5)>>
    /\ objectIds = 5
    /\ customers = <<>> /\ shifts = <<>> /\ invoices = <<>>
    /\ settingsDocs \in {<<>>, <<CompleteSettings>>, <<LegacySettings>>}
    /\ now = 0
    /\ InitRequests

InvoiceCreate(p) == InvoiceCreateStart(p, Users, 1..6)
\* Cancellations arrive on one request slot; creations may use both.
InvoiceCancel(p) == p = "r1" /\ InvoiceCancelStart(p, Users, 1..MaxInvoices)

NextInvoice ==
    \/ Tick
    \/ \E p \in Procs :
        \/ InvoiceCreate(p) \/ InvoiceFindExisting(p)
        \/ SettingsFindSingleton(p) \/ SettingsFindAny(p)
        \/ SettingsMigrate(p) \/ SettingsCreate(p)
        \/ InvoiceGenerateNumber(p) \/ InvoiceSave(p)
        \/ InvoiceCancel(p) \/ InvoiceCancelSave(p)

SpecInvoice == InitInvoice /\ [][NextInvoice]_vars

(***************************************************************************)
(* Properties of the invoice handlers.                                     *)
(***************************************************************************)
\* The invoices of one shop whose number carries one year, in order of issue.
InvoicesOf(userId, year) ==
    {i \in 1..Len(invoices) :
        invoices[i].userId = userId /\ invoices[i].invoiceNumber.year = year}

\* k written with exactly six decimal digits.
SixDigits(k) ==
    <<(k \div 100000) % 10, (k \div 10000) % 10, (k \div 1000) % 10,
      (k \div 100) % 10, (k \div 10) % 10, k % 10>>

\* C7: for one shop and one calendar year the sequence numbers of the shop's
\* invoices, in order of issue, are exactly 1, 2, ..., n, each written with
\* six zero-padded digits, whatever creations and cancellations happened.
C7_InvoiceNumbersSequential ==
    \A u \in Users :
        \A y \in {invoices[i].invoiceNumber.year : i \in 1..Len(invoices)} :
            \A i \in InvoicesOf(u, y) :
                invoices[i].invoiceNumber.digits =
                    SixDigits(Cardinality({j \in InvoicesOf(u, y) : j <= i}))

\* A shop holds TAX-2026-000001, since cancelled, and TAX-2026-000002.
C7_Witness ==
    \E u \in Users, i, j \in 1..Len(invoices) :
        /\ i < j
        /\ InvoicesOf(u, 2026) = {i, j}
        /\ invoices[i].status = "cancelled" /\ invoices[j].status = "issued"
        /\ invoices[i].invoiceNumber.digits = <<0, 0, 0, 0, 0, 1>>
        /\ invoices[j].invoiceNumber.digits = <<0, 0, 0, 0, 0, 2>>

\* C8: in every reachable state no two FullTaxInvoice records carry the same
\* invoiceNumber, cancelled invoices included.
C8_InvoiceNumbersUnique ==
    \A i, j \in 1..Len(invoices) :
        i # j => invoices[i].invoiceNumber # invoices[j].invoiceNumber

\* A create has failed on a unique index while another invoice, issued after
\* a cancelled one, stands beside it.
C8_Witness ==
    \E p \in Procs, i, j \in 1..Len(invoices) :
        /\ Idle(p) /\ ret[p] = "duplicate_key"
        /\ i < j
        /\ invoices[i].status = "cancelled"
        /\ invoices[i].saleId # invoices[j].saleId
        /\ invoices[i].invoiceNumber.year = invoices[j].invoiceNumber.year

SaleHasInvoice(saleId) == \E i \in 1..Len(invoices) : invoices[i].saleId = saleId

OneInvoicePerSale ==
    \A i, j \in 1..Len(invoices) : i # j => invoices[i].saleId # invoices[j].saleId

\* C9: at most one FullTaxInvoice references a sale after every step, and a
\* create that looks for the invoice of a sale that has one, issued or
\* cancelled, fails with the already-exists error and creates nothing.
C9_OneInvoicePerSale ==
    [][/\ OneInvoicePerSale'
       /\ \A p \in Procs :
            (pc[p] = "inv_existing" /\ pc'[p] # "inv_existing"
                /\ SaleHasInvoice(lv[p].saleId))
            => (ret'[p] = "already_exists" /\ pc'[p] = "idle" /\ invoices' = invoices)
      ]_vars

\* A create for the sale of a cancelled invoice has failed with already-exists.
C9_Witness ==
    \E p \in Procs :
        /\ Idle(p) /\ ret[p] = "already_exists"
        /\ Len(invoices) = 1 /\ invoices[1].status = "cancelled"

\* The sale carries a VAT rate above zero.
HasVat(sale) == sale.vatRate # {} /\ \A v \in sale.vatRate : v > 0

\* C10: every FullTaxInvoice references a sale with vatRate > 0: a create for
\* a sale with vatRate 0 or absent goes no further than reading the sale, and
\* a create that fails with the not-eligible error stores nothing.
C10_OnlyVatSalesInvoiced ==
    [][/\ \A i \in 1..Len(invoices') : HasVat(sales'[invoices'[i].saleId])
       /\ \A p \in Procs :
            /\ (pc[p] = "idle" /\ pc'[p] = "inv_existing") => HasVat(sales[lv'[p].saleId])
            /\ (ret'[p] = "not_eligible" /\ ret[p] # "not_eligible")
                  => (pc'[p] = "idle" /\ invoices' = invoices)
      ]_vars

\* A create has failed with not-eligible while the only invoice of the
\* database holds the first number of its year.
C10_Witness ==
    \E p \in Procs :
        /\ Idle(p) /\ ret[p] = "not_eligible"
        /\ Len(invoices) = 1
        /\ invoices[1].invoiceNumber.digits = <<0, 0, 0, 0, 0, 1>>

(***************************************************************************)
(* customers.payDebt (routers.ts 360-368) and payDebt (db.ts 743-748).     *)
(* An update document is a sequence of operators, each on one path.        *)
(***************************************************************************)
\* { $inc: { totalDebt: -amount }, $min: { totalDebt: 0 } }
PayDebtUpdate(amount) ==
    <<[op |-> "$inc", path |-> "totalDebt", value |-> -amount],
      [op |-> "$min", path |-> "totalDebt", value |-> 0]>>

\* MongoDB rejects an update document in which two operators name one path
\* ("Updating the path would create a conflict"); nothing is written.
UpdateConflict(update) ==
    \E i, j \in 1..Len(update) : i # j /\ update[i].path = update[j].path

\* One operator applied to the totalDebt of a customer.
ApplyDebtOp(debt, o) ==
    IF o.op = "$inc" THEN PlusWhole(debt, o.value)
    ELSE IF Less(Whole(o.value), debt) THEN Whole(o.value) ELSE debt

RECURSIVE ApplyDebtUpdate(_, _)
ApplyDebtUpdate(debt, update) ==
    IF update = <<>> THEN debt
    ELSE ApplyDebtUpdate(ApplyDebtOp(debt, Head(update)), Tail(update))

\* payDebt: Customer.updateOne({ _id, userId }, update), one round trip.
PayDebtCall(p, userId, customerId, amount) ==
    /\ Idle(p)
    /\ amount > 0
    /\ IF UpdateConflict(PayDebtUpdate(amount))
       THEN /\ Done(p, "update_conflict")
            /\ UNCHANGED customers
       ELSE /\ customers' =
                 [i \in 1..Len(customers) |->
                    IF i = customerId /\ customers[i].userId = userId
                    THEN [customers[i] EXCEPT
                            !.totalDebt = ApplyDebtUpdate(@, PayDebtUpdate(amount))]
                    ELSE customers[i]]
            /\ Done(p, "ok")
    /\ UNCHANGED <<stockVars, sales, saleItems, shiftVars, invoiceVars, now>>

PayDebt(p, users, customerIds, amounts) ==
    \E u \in users, c \in customerIds, a \in amounts : PayDebtCall(p, u, c, a)

(***************************************************************************)
(* SpecDebt: shop A sells on credit to two named customers, 100 a sale,    *)
(* and takes payments of 50 and of 150.                                    *)
(***************************************************************************)
DebtNames == {"Somchai", "Malee"}

DebtSale(p) == SaleStart(p, {"A"}, {<<Item(1, 1, 100)>>}, {"credit"}, DebtNames, {0})
DebtPay(p) == PayDebt(p, {"A"}, {1, 2}, {50, 150})

NextDebt ==
    \E p \in Procs :
        \/ DebtSale(p) \/ SaleFindCustomer(p) \/ SaleCustomerWrite(p)
        \/ SaleCreateSale(p) \/ SaleCreateItems(p)
        \/ AdjustUpdate(p) \/ AdjustMovement(p)
        \/ DebtPay(p)

SpecDebt == InitShift /\ [][NextDebt]_vars

\* C11: payDebt of amount > 0 on a customer of the shop sets the customer's
\* totalDebt to max(0, totalDebt - amount): never negative, 0 when more than
\* is owed is paid, the remainder otherwise.
C11_PayDebtFloorsAtZero ==
    [][\A p \in Procs, c \in 1..Len(customers), a \in {50, 150} :
          (PayDebtCall(p, customers[c].userId, c, a))
          => customers'[c].totalDebt =
                (IF Less(Whole(a), customers[c].totalDebt)
                 THEN PlusWhole(customers[c].totalDebt, -a) ELSE Whole(0))
      ]_vars

\* C12: a Shift is closed exactly once: once its status is "closed" no later
\* step changes its status, endTime or reconciliation figures, reopens it or
\* deletes it.
C12_ClosedShiftNeverChanges ==
    [][/\ Len(shifts') >= Len(shifts)
       /\ \A i \in 1..Len(shifts) :
            shifts[i].status = "closed" => shifts'[i] = shifts[i]
      ]_vars

\* The open shifts of a shop that shift.open or shift.close, called at clock
\* value t, can be asked to see: those of the day of the call or of a day
\* before it.
OpenShiftsBy(userId, t) ==
    {i \in OpenShiftsOf(userId) : shifts[i].shiftDate <= getTodayDate(t)}

\* C13: shift.open called while the shop has an open shift fails with the
\* shift-already-open error and goes no further, so it creates no Shift;
\* shift.close called while the shop has no open shift fails with the
\* no-open-shift error and changes no Shift.  The shop has or has not the
\* open shift when the lookup of the call is answered.
C13_ShiftErrors ==
    [][\A p \in Procs :
          /\ (ShiftOpenCheck(p) /\ OpenShiftsBy(lv[p].userId, lv[p].at) # {})
                => (ret'[p] = "shift_already_open" /\ pc'[p] = "idle" /\ shifts' = shifts)
          /\ (ShiftCloseFind(p) /\ OpenShiftsOf(lv[p].userId) = {})
                => (ret'[p] = "no_open_shift" /\ pc'[p] = "idle" /\ shifts' = shifts)
      ]_vars

\* The open shifts of a shop that were opened on a day before the day of t.
OpenShiftsBefore(userId, t) ==
    {i \in OpenShiftsOf(userId) : shifts[i].shiftDate < getTodayDate(t)}

\* C14: an open shift of a previous calendar day blocks shift.open: while the
\* shop has a shift opened on a day before the call and still open,
\* shift.open is rejected with shift-already-open.
C14_PreviousDayShiftBlocksOpen ==
    [][\A p \in Procs :
          (ShiftOpenCheck(p) /\ OpenShiftsBefore(lv[p].userId, lv[p].at) # {})
             => (ret'[p] = "shift_already_open" /\ pc'[p] = "idle")
      ]_vars

(***************************************************************************)
(* SpecCancel: with the seller settings complete, shop A issues invoices   *)
(* for its two VAT sales and cancels them, on both request slots.          *)
(***************************************************************************)
InitCancel == InitInvoice /\ settingsDocs = <<CompleteSettings>>

CancelCreate(p) == InvoiceCreateStart(p, {"A"}, {1, 2})
CancelCancel(p) == InvoiceCancelStart(p, {"A"}, 1..MaxInvoices)

NextCancel ==
    \E p \in Procs :
        \/ CancelCreate(p) \/ InvoiceFindExisting(p) \/ SettingsFindSingleton(p)
        \/ InvoiceGenerateNumber(p) \/ InvoiceSave(p)
        \/ CancelCancel(p) \/ InvoiceCancelSave(p)

SpecCancel == InitCancel /\ [][NextCancel]_vars

\* C15: cancelFullTaxInvoice changes the status to "cancelled" only when the
\* invoice is "issued" at that moment, so of two cancel calls on one invoice
\* exactly one succeeds.
C15_CancelOnlyIssued ==
    [][\A p \in Procs :
          (pc[p] = "cancel_save" /\ pc'[p] = "idle" /\ ret'[p] = "ok")
             => invoices[lv[p].invoiceId].status = "issued"
      ]_vars

\* C16: once a FullTaxInvoice exists it exists in every later state with the
\* same invoiceNumber and saleId, and once it is "cancelled" it stays
\* "cancelled": no step deletes an invoice or returns it to "issued".
C16_InvoicesArePermanent ==
    [][/\ Len(invoices') >= Len(invoices)
       /\ \A i \in 1..Len(invoices) :
            /\ invoices'[i].invoiceNumber = invoices[i].invoiceNumber
            /\ invoices'[i].saleId = invoices[i].saleId
            /\ invoices[i].status = "cancelled" => invoices'[i].status = "cancelled"
      ]_vars

\* A cancelled invoice has lived through a second cancel attempt and the
\* issue of a later invoice.
C16_Witness ==
    \E p \in Procs :
        /\ Idle(p) /\ ret[p] = "already_cancelled"
        /\ Len(invoices) = 2
        /\ invoices[1].status = "cancelled" /\ invoices[2].status = "issued"

(***************************************************************************)
(* system.settings.get and system.settings.update (systemRouter.ts 32-89)  *)
(* with updateSettings (db.ts 1596-1607).  An absent input field is the    *)
(* empty set.                                                              *)
(***************************************************************************)
\* settings.get: the request arrives; getSettings follows.
SettingsGetStart(p) ==
    /\ Idle(p)
    /\ Begin(p, [op |-> "settingsGet"], "settings_singleton")
    /\ UNCHANGED <<stockVars, saleVars, shiftVars, invoiceVars, now>>

\* sellerTaxId.replace(/\s|-/g, "") on the strings the model uses.
CleanTaxId(str) == IF str = " " THEN "" ELSE str

\* processedInput: a non-empty sellerTaxId is cleaned, the rest is kept.
ProcessedInput(input) ==
    [input EXCEPT !.sellerTaxId = {IF t = "" THEN t ELSE CleanTaxId(t) : t \in @}]

\* The refine of the input schema on sellerTaxId: absent, empty or blank, or
\* 13 digits once white space and dashes are removed.  Of the strings the
\* model uses, those in the set below consist of digits only.
SellerTaxIdAccepted(val) ==
    \/ val = "" \/ Trim(val) = ""
    \/ /\ CleanTaxId(val) \in {"0105500000017", "1234567890123", "12345"}
       /\ Len(CleanTaxId(val)) = 13

\* settings.update arrives.  A sellerTaxId the input schema refuses ends the
\* request before the handler runs; otherwise updateSettings starts with
\* getSettings.
SettingsUpdateStart(p, inputs) ==
    /\ Idle(p)
    /\ \E input \in inputs :
         IF \E t \in input.sellerTaxId : ~SellerTaxIdAccepted(t)
         THEN Done(p, "bad_request")
         ELSE Begin(p, [op |-> "settingsUpdate", updates |-> ProcessedInput(input)],
                    "settings_singleton")
    /\ UNCHANGED <<stockVars, saleVars, shiftVars, invoiceVars, now>>

\* { $set: updates } applied to a Settings document.
SetUpdates(settings, updates) ==
    [settings EXCEPT
        !.vatEnabled = IF updates.vatEnabled = {} THEN @
                       ELSE CHOOSE v \in updates.vatEnabled : TRUE,
        !.sellerName = IF updates.sellerName = {} THEN @
                       ELSE CHOOSE v \in updates.sellerName : TRUE,
        !.sellerAddress = IF updates.sellerAddress = {} THEN @
                          ELSE CHOOSE v \in updates.sellerAddress : TRUE,
        !.sellerTaxId = IF updates.sellerTaxId = {} THEN @
                        ELSE CHOOSE v \in updates.sellerTaxId : TRUE]

\* updateSettings: Settings.findOneAndUpdate({ singleton: "settings" },
\* { $set: updates }, { new: true, upsert: true }).
SettingsWrite(p) ==
    /\ pc[p] = "settings_write"
    /\ LET found == {i \in 1..Len(settingsDocs) : settingsDocs[i].singleton = {"settings"}}
       IN IF found # {}
          THEN \E i \in found :
                 settingsDocs' = [settingsDocs EXCEPT ![i] = SetUpdates(@, lv[p].updates)]
          ELSE settingsDocs' = Append(settingsDocs, SetUpdates(DefaultSettings, lv[p].updates))
    /\ Finish(p, "ok")
    /\ UNCHANGED <<stockVars, saleVars, shiftVars, invoices, now>>

(***************************************************************************)
(* SpecSeller: starting with complete seller settings, shop A issues and   *)
(* cancels invoices for its two VAT sales while the settings are edited:   *)
(* the shop is renamed, its tax id is blanked with a space, its name and   *)
(* address are blanked.                                                    *)
(***************************************************************************)
NoUpdates == [vatEnabled |-> {}, sellerName |-> {}, sellerAddress |-> {}, sellerTaxId |-> {}]

SellerEdits ==
    {[NoUpdates EXCEPT !.sellerName = {"Shop2"}],
     [NoUpdates EXCEPT !.sellerTaxId = {" "}],
     [NoUpdates EXCEPT !.sellerName = {" "}, !.sellerAddress = {""}]}

SellerUpdate(p) == p = "r1" /\ SettingsUpdateStart(p, SellerEdits)
SellerCreate(p) == InvoiceCreateStart(p, {"A"}, {1, 2})
SellerCancel(p) == p = "r1" /\ InvoiceCancelStart(p, {"A"}, 1..MaxInvoices)

NextSeller ==
    \E p \in Procs :
        \/ SellerUpdate(p) \/ SettingsWrite(p)
        \/ SellerCreate(p) \/ InvoiceFindExisting(p) \/ SettingsFindSingleton(p)
        \/ InvoiceGenerateNumber(p) \/ InvoiceSave(p)
        \/ SellerCancel(p) \/ InvoiceCancelSave(p)

SpecSeller == InitCancel /\ [][NextSeller]_vars

(***************************************************************************)
(* Properties of the seller snapshot.                                      *)
(***************************************************************************)
SellerOf(r) ==
    <<r.sellerName, r.sellerAddress, r.sellerTaxId>>

AmountsOf(r) ==
    <<r.subtotal, r.vatAmount, r.totalWithVat>>

\* C17: the seller name, address and tax id and the three amounts stored on
\* an invoice are the Settings values its create call read with getSettings
\* (two round trips before the insert) and the values of its Sale, and no
\* later step (settings update, cancellation, another create) changes them.
C17_InvoiceSnapshot ==
    [][/\ \A i \in 1..Len(invoices) :
            /\ SellerOf(invoices'[i]) = SellerOf(invoices[i])
            /\ AmountsOf(invoices'[i]) = AmountsOf(invoices[i])
       /\ \A p \in Procs :
            /\ (lv[p].op = "invoiceCreate" /\ pc[p] = "settings_singleton"
                    /\ pc'[p] = "inv_number")
                  => \E d \in 1..Len(settingsDocs) :
                        SellerOf(lv'[p]) = SellerOf(settingsDocs[d])
            /\ (pc[p] = "inv_number" /\ pc'[p] = "inv_save")
                  => SellerOf(lv'[p]) = SellerOf(lv[p])
            /\ (pc[p] = "inv_save" /\ pc'[p] = "idle"
                    /\ Len(invoices') = Len(invoices) + 1)
                  => LET new == invoices'[Len(invoices')]
                     IN /\ SellerOf(new) = SellerOf(lv[p])
                        /\ AmountsOf(new) = AmountsOf(sales[new.saleId])
      ]_vars

\* C17 as stated: the seller name, address and tax id and the three amounts
\* stored on an invoice equal the values of the Settings document and of the
\* Sale at the moment the invoice is inserted, and no later step changes
\* them.
C17_SnapshotAtCreation ==
    [][/\ \A i \in 1..Len(invoices) :
            /\ SellerOf(invoices'[i]) = SellerOf(invoices[i])
            /\ AmountsOf(invoices'[i]) = AmountsOf(invoices[i])
       /\ \A p \in Procs :
            (pc[p] = "inv_save" /\ pc'[p] = "idle"
                    /\ Len(invoices') = Len(invoices) + 1)
                  => LET new == invoices'[Len(invoices')]
                     IN /\ \E d \in 1..Len(settingsDocs) :
                              SellerOf(new) = SellerOf(settingsDocs[d])
                        /\ AmountsOf(new) = AmountsOf(sales[new.saleId])
      ]_vars

\* An invoice issued under the name "Shop" and since cancelled still carries
\* that name and its sale's amounts (100, 7.000000000000001 = 7 + 2^-50, 107)
\* after the shop was renamed "Shop2".
C17_Witness ==
    \E i \in 1..Len(invoices) :
        /\ AllIdle
        /\ invoices[i].status = "cancelled"
        /\ invoices[i].sellerName = "Shop"
        /\ AmountsOf(invoices[i]) = <<100, [whole |-> 7, ones |-> {50}], Whole(107)>>
        /\ \E d \in 1..Len(settingsDocs) : settingsDocs[d].sellerName = "Shop2"

\* The seller fields of a Settings document that are empty or hold only
\* white space, as a set of labels.
SellerFieldLabels == {"shop name", "shop address", "taxpayer id"}

BlankSellerFields(d) ==
    {f \in SellerFieldLabels :
        LET v == IF f = "shop name" THEN d.sellerName
                 ELSE IF f = "shop address" THEN d.sellerAddress
                 ELSE d.sellerTaxId
        IN v \in {"", " "}}

\* C20: when createFullTaxInvoice has read the Settings for an eligible sale
\* without invoice, it fails with the seller-incomplete error exactly when
\* the name, the address or the tax id is empty or white space only; the
\* error names exactly the blank fields, each once (a blank tax id as the
\* taxpayer identification number), and the call ends without an invoice.
C20_SellerIncomplete ==
    [][\A p \in Procs :
         (lv[p].op = "invoiceCreate" /\ pc[p] = "settings_singleton"
             /\ pc'[p] # "settings_singleton")
           => \E d \in 1..Len(settingsDocs) :
                LET blank == BlankSellerFields(settingsDocs[d]) IN
                /\ (ret'[p] = "seller_incomplete") <=> (blank # {})
                /\ blank = {} => pc'[p] = "inv_number"
                /\ blank # {} =>
                     /\ pc'[p] = "idle"
                     /\ invoices' = invoices
                     /\ Len(lv'[p].message) = Cardinality(blank)
                     /\ {lv'[p].message[i] : i \in 1..Len(lv'[p].message)} = blank
      ]_vars

\* A create call was refused with all three fields named while the stored
\* shop name is a single space and the tax id is empty.
C20_Witness ==
    \E p \in Procs :
        /\ ret[p] = "seller_incomplete"
        /\ pc[p] = "idle"
        /\ lv[p].op = "none"
        /\ lv[p] = [op |-> "none",
                    message |-> <<"shop name", "shop address", "taxpayer id">>]
        /\ settingsDocs[1].sellerName = " "
        /\ settingsDocs[1].sellerTaxId = ""
        /\ invoices = <<>>

(***************************************************************************)
(* Atomicity of sales.create.                                              *)
(***************************************************************************)
\* The documents in the database that carry the id of a given sale.
SaleTraces(saleId, ss, items, ms) ==
    [sale |-> {i \in 1..Len(ss) : i = saleId},
     saleItems |-> {i \in 1..Len(items) : items[i].saleId = saleId},
     movements |-> {i \in 1..Len(ms) : ms[i].note = SaleNote(saleId)}]

NoTraces == [sale |-> {}, saleItems |-> {}, movements |-> {}]

\* C18: a sales.create call that ends in an error leaves nothing of its
\* sale behind: no Sale, no SaleItem and no StockMovement of that sale is in
\* the database when the call returns.
C18_FailedSaleLeavesNothing ==
    [][\A p \in Procs :
         (lv[p].op = "sale" /\ pc'[p] = "idle" /\ ret'[p] # "ok")
            => SaleTraces(lv[p].saleId, sales', saleItems', movements') = NoTraces
      ]_vars

(***************************************************************************)
(* SpecSettings: settings.get and settings.update calls on two request     *)
(* slots, starting with an empty Settings collection.                      *)
(***************************************************************************)
SettingsEdits ==
    {[NoUpdates EXCEPT !.vatEnabled = {TRUE}],
     [NoUpdates EXCEPT !.vatEnabled = {FALSE}, !.sellerName = {"Shop"}],
     [NoUpdates EXCEPT !.sellerTaxId = {"0105500000017"}],
     [NoUpdates EXCEPT !.sellerTaxId = {"12345"}]}

SettingsUpdate(p) == SettingsUpdateStart(p, SettingsEdits)

NextSettings ==
    \E p \in Procs :
        \/ SettingsGetStart(p) \/ SettingsUpdate(p)
        \/ SettingsFindSingleton(p) \/ SettingsFindAny(p)
        \/ SettingsMigrate(p) \/ SettingsCreate(p)
        \/ SettingsWrite(p)

SpecSettings == InitEmpty /\ [][NextSettings]_vars

\* C19: at most one Settings record exists, no step removes one, a record
\* created by getSettings has vatEnabled = false, and every getSettings
\* call, whether made by settings.get or by settings.update, comes back
\* with the record instead of an error.
C19_SettingsSingleton ==
    [][/\ Len(settingsDocs') <= 1
       /\ Len(settingsDocs') >= Len(settingsDocs)
       /\ (settingsDocs = <<>> /\ settingsDocs' # <<>>)
             => settingsDocs'[1].vatEnabled = FALSE
       /\ \A p \in Procs :
            (pc[p] \in {"settings_singleton", "settings_any",
                        "settings_migrate", "settings_create"}
               /\ pc'[p] \in {"idle", "settings_write"})
              => /\ settingsDocs' # <<>>
                 /\ pc'[p] = "idle" => ret'[p] = "ok"
      ]_vars

(***************************************************************************)
(* The error of an adjustment that matched no product.                     *)
(***************************************************************************)
\* C21: when the stock update of adjustProductStock matches nothing, the
\* call ends with "product not found" if no product of that id exists, and
\* with "insufficient stock" only if the product exists and holds less than
\* the requested decrement, whatever the sign of the delta.
C21_NoMatchErrorNamesTheCause ==
    [][\A p \in Procs :
         (pc[p] = "adj_update" /\ pc'[p] = "idle"
             /\ AdjustInputValid(lv[p].adj.quantityChange))
           => LET a == lv[p].adj IN
              /\ (a.productId \notin 1..Len(products))
                    => ret'[p] = "product_not_found"
              /\ ret'[p] = "insufficient_stock"
                    => /\ a.productId \in 1..Len(products)
                       /\ a.quantityChange < 0
                       /\ products[a.productId].stock < -a.quantityChange
      ]_vars

(***************************************************************************)
(* Invoice numbering across shops.                                         *)
(***************************************************************************)
\* C22: numbering is per shop.  The first invoice a shop stores in a
\* calendar year is number 000001 of that year, and a create that reaches
\* its save for a sale without invoice, with a number no invoice of the
\* same shop carries, succeeds whatever invoices other shops hold.
C22_NumberingIsPerShop ==
    [][\A p \in Procs :
         (pc[p] = "inv_save" /\ pc'[p] = "idle")
           => LET l == lv[p] IN
              /\ (~SaleHasInvoice(l.saleId)
                    /\ \A i \in 1..Len(invoices) :
                          invoices[i].userId = l.userId
                             => invoices[i].invoiceNumber # l.invoiceNumber)
                   => /\ ret'[p] = "ok"
                      /\ Len(invoices') = Len(invoices) + 1
              /\ (Len(invoices') = Len(invoices) + 1
                    /\ InvoicesOf(l.userId, l.invoiceNumber.year) = {})
                   => invoices'[Len(invoices')].invoiceNumber.digits = SixDigits(1)
      ]_vars

(***************************************************************************)
(* stock.movements (routers.ts 330-348) and getStockMovementsByUser        *)
(* (db.ts 439-483).  The listing filters, sorts and cuts its pages by the  *)
(* _id of the movements, the ObjectId each got when its document was       *)
(* built (db.ts 398), whatever the order in which the inserts landed.      *)
(* Cursor 0 is no cursor, productId 0 is no product filter; an absent      *)
(* limit is the empty set.  A traversal is a client that calls again with  *)
(* the nextCursor it was given until that is null, and keeps the _ids of   *)
(* the items it received.                                                  *)
(***************************************************************************)
DefaultPageLimit == 50         \* input.limit ?? 50
MinPageLimit == 1              \* Math.max(..., 1)
MaxPageLimit == 200            \* Math.min(..., 200)
MaxLedger == 5                 \* stock-in requests of SpecPages stop at this many movements built

Min2(a, b) == IF a < b THEN a ELSE b
Max2(a, b) == IF a > b THEN a ELSE b

\* Math.min(Math.max(input.limit ?? 50, 1), 200)
PageLimit(limit) ==
    Min2(Max2(IF limit = {} THEN DefaultPageLimit ELSE CHOOSE l \in limit : TRUE,
              MinPageLimit),
         MaxPageLimit)

\* filter._id = { $lt: cursor }
CursorMatchesInclusive(id, cursor) == id <= cursor
CursorMatches(id, cursor) == id < cursor

\* The _ids StockMovement.find(filter) matches:
\* { productId: { $in: productIds } } and, with a cursor, { _id: { $lt: cursor } }.
PageMatches(productIds, cursor) ==
    {movements[i]._id : i \in
        {j \in 1..Len(movements) :
            /\ movements[j].productId \in productIds
            /\ cursor # 0 => CursorMatches(movements[j]._id, cursor)}}

\* .sort({ _id: -1 })
RECURSIVE SortDesc(_)
SortDesc(S) ==
    IF S = {} THEN <<>>
    ELSE LET m == CHOOSE x \in S : \A y \in S : y <= x
         IN <<m>> \o SortDesc(S \ {m})

\* .limit(n)
Take(seq, n) == SubSeq(seq, 1, Min2(Len(seq), n))

\* The page the handler returns: items and nextCursor (0 for null).
PageOf(productIds, cursor, limit) ==
    LET found == Take(SortDesc(PageMatches(productIds, cursor)), limit + 1)
        hasNext == Len(found) > limit
        slice == IF hasNext THEN SubSeq(found, 1, limit) ELSE found
    IN [items |-> slice,
        nextCursor |-> IF hasNext THEN slice[Len(slice)] ELSE 0]

\* The first request of a traversal arrives; Product.find({ userId }) is
\* awaited.  began and catalog record what the ledger held and which
\* products the shop had at that moment; the handler reads neither.
MovementsStart(p, users, limits, productIds) ==
    /\ Idle(p)
    /\ \E u \in users, l \in limits, pid \in productIds :
         Begin(p, [op |-> "movements", userId |-> u, limit |-> l, productId |-> pid,
                   cursor |-> 0, allowed |-> {}, received |-> <<>>,
                   began |-> Len(movements),
                   catalog |-> {i \in ProductIds : products[i].userId = u}],
               "mov_products")
    /\ UNCHANGED <<stockVars, saleVars, shiftVars, invoiceVars, now>>

\* The traversal is over: the client keeps what it received.
TraversalEnds(p, received) ==
    /\ pc' = [pc EXCEPT ![p] = "idle"]
    /\ ret' = [ret EXCEPT ![p] = "ok"]
    /\ lv' = [lv EXCEPT ![p] = [op |-> "none", userId |-> lv[p].userId,
                                 productId |-> lv[p].productId,
                                 began |-> lv[p].began, catalog |-> lv[p].catalog,
                                 received |-> received]]

\* Product.find({ userId }) returned; a product filter outside the shop's
\* products ends the call with no items and no cursor.
MovementsProducts(p) ==
    /\ pc[p] = "mov_products"
    /\ LET l == lv[p]
           owned == {i \in ProductIds : products[i].userId = l.userId}
       IN IF l.productId # 0 /\ l.productId \notin owned
          THEN TraversalEnds(p, l.received)
          ELSE Goto(p, [l EXCEPT !.allowed = IF l.productId # 0 THEN {l.productId}
                                             ELSE owned],
                    "mov_find")
    /\ UNCHANGED <<stockVars, saleVars, shiftVars, invoiceVars, now>>

\* StockMovement.find(filter).sort({ _id: -1 }).limit(limit + 1) returned;
\* the client asks for the next page when it was given a cursor.
MovementsFind(p) ==
    /\ pc[p] = "mov_find"
    /\ LET l == lv[p]
           page == PageOf(l.allowed, l.cursor, PageLimit(l.limit))
       IN IF page.nextCursor = 0
          THEN TraversalEnds(p, l.received \o page.items)
          ELSE Goto(p, [l EXCEPT !.cursor = page.nextCursor,
                                 !.received = l.received \o page.items],
                    "mov_products")
    /\ UNCHANGED <<stockVars, saleVars, shiftVars, invoiceVars, now>>

(***************************************************************************)
(* SpecPages: shop A (product 1) and shop B (product 2) hold a ledger of   *)
(* three purchases; both shops page through their movements while stock-in *)
(* requests build and insert new ones and shop A deletes its product.      *)
(***************************************************************************)
Purchase(id, productId) ==
    [_id |-> id, productId |-> productId, type |-> "IN", quantity |-> 1,
     source |-> "PURCHASE", note |-> NullNote]

InitPages ==
    /\ products = <<[NewProduct("A", 0) EXCEPT !.stock = 2],
                    [NewProduct("B", 0) EXCEPT !.stock = 1]>>
    /\ movements = <<Purchase(1, 1), Purchase(2, 2), Purchase(3, 1)>>
    /\ objectIds = 3
    /\ sales = <<>> /\ saleItems = <<>> /\ customers = <<>>
    /\ shifts = <<>> /\ invoices = <<>> /\ settingsDocs = <<>>
    /\ now = 0
    /\ InitRequests

\* The limits asked for: none, 0, 1 and 2.
PagesLimits == {{}, {0}, {1}, {2}}

PagesTraverse(p) == MovementsStart(p, Users, PagesLimits, {0, 1})

\* stock.in by the owner of the product, one unit.
PagesStockIn(p) ==
    /\ Idle(p)
    /\ objectIds < MaxLedger
    /\ \E id \in ProductIds :
         Begin(p, [op |-> "stockIn", userId |-> products[id].userId, productId |-> id,
                   quantity |-> 1, note |-> NullNote],
               "stockin_find")
    /\ UNCHANGED <<stockVars, saleVars, shiftVars, invoiceVars, now>>

\* products.delete by shop A of its product.
PagesDelete(p) == ProductsDelete(p, {"A"}, {1})

NextPages ==
    \E p \in Procs :
        \/ PagesTraverse(p) \/ MovementsProducts(p) \/ MovementsFind(p)
        \/ PagesStockIn(p) \/ StockInFind(p)
        \/ AdjustUpdate(p) \/ AdjustMovement(p)
        \/ PagesDelete(p)

SpecPages == InitPages /\ [][NextPages]_vars

\* The movements that were in the ledger when a traversal began and belong
\* to the products the shop had then, or to the one product asked for.
ExpectedAtStart(l) ==
    {movements[i]._id : i \in
        {j \in 1..l.began :
            /\ movements[j].productId \in l.catalog
            /\ l.productId # 0 => movements[j].productId = l.productId}}

\* Those of them whose product the shop still has.
Expected(l) ==
    {movements[i]._id : i \in
        {j \in 1..l.began :
            /\ movements[j].productId \in l.catalog
            /\ ProductExists(movements[j].productId)
            /\ l.productId # 0 => movements[j].productId = l.productId}}

\* min(max(limit ?? 50, 1), 200)
PageBound(limit) ==
    Min2(Max2(IF limit = {} THEN 50 ELSE CHOOSE x \in limit : TRUE, 1), 200)

\* C23: a traversal that follows nextCursor to the end has received, exactly
\* once and in strictly descending order of _id (the order in which the
\* server built the documents), every movement that was in the ledger when
\* it began and belongs to a product of the shop that the shop still has
\* when the traversal ends, and no page holds more than
\* min(max(limit, 1), 200) items, while stock-in requests build and insert
\* new movements between the page fetches and products are deleted.
C23_TraversalComplete ==
    [][\A p \in Procs :
         (pc[p] \in {"mov_products", "mov_find"} /\ pc'[p] # pc[p])
           => LET got == lv'[p].received IN
              /\ Len(got) - Len(lv[p].received) <= PageBound(lv[p].limit)
              /\ \A i, j \in 1..Len(got) : i < j => got[i] > got[j]
              /\ pc'[p] = "idle"
                    => Expected(lv'[p]) \subseteq {got[i] : i \in 1..Len(got)}
      ]_vars

\* C23 as stated: a traversal that follows nextCursor to the end has
\* received every movement of the products the shop had when it began that
\* was in the ledger then, exactly once and in strictly descending order of
\* creation, and no page holds more than min(max(limit, 1), 200) items.
C23_EveryMovementAtStart ==
    [][\A p \in Procs :
         (pc[p] \in {"mov_products", "mov_find"} /\ pc'[p] # pc[p])
           => LET got == lv'[p].received IN
              /\ Len(got) - Len(lv[p].received) <= PageBound(lv[p].limit)
              /\ \A i, j \in 1..Len(got) : i < j => got[i] > got[j]
              /\ pc'[p] = "idle"
                    => ExpectedAtStart(lv'[p]) \subseteq {got[i] : i \in 1..Len(got)}
      ]_vars

\* Shop A's traversal, one item a page, began when the ledger held its
\* movements 1, 3 and 5; movement 4, built before movement 5, was inserted
\* after the first page was fetched; the traversal has ended with all four,
\* and the shop still has its product.
C23_Witness ==
    \E p \in Procs :
        /\ Idle(p) /\ ret[p] = "ok" /\ lv[p].op = "none"
        /\ "received" \in DOMAIN lv[p]
        /\ lv[p].userId = "A" /\ lv[p].productId = 0
        /\ lv[p].began = 4
        /\ lv[p].received = <<5, 4, 3, 1>>
        /\ Len(movements) = 5
        /\ movements[4]._id = 5 /\ movements[5]._id = 4
        /\ ProductExists(1)

(***************************************************************************)
(* products.lowStock (routers.ts 168-170) and getLowStockProducts          *)
(* (db.ts 342-361).  A product stored before reorderPoint existed has no   *)
(* such field and carries minStock instead.  A value that may be null is a *)
(* set: {} for null.                                                       *)
(***************************************************************************)
\* { $ifNull: ["$reorderPoint", "$minStock"] }
IfNullReorderPoint(d) ==
    IF "reorderPoint" \in DOMAIN d THEN {d.reorderPoint}
    ELSE IF "minStock" \in DOMAIN d THEN {d.minStock}
    ELSE {}

\* { $lte: ["$stock", threshold] }: no number is at or below null.
LteStrict(stock, threshold) == \E t \in threshold : stock < t
Lte(stock, threshold) == \E t \in threshold : stock <= t

\* The products Product.find({ userId, $expr }) matches.
LowStockMatches(userId) ==
    {i \in ProductIds :
        /\ products[i].userId = userId
        /\ Lte(products[i].stock, IfNullReorderPoint(products[i]))}

\* .sort({ stock: 1 }): the orders of S by ascending stock; products of
\* equal stock come in either order.
SortedByStock(S) ==
    {f \in [1..Cardinality(S) -> S] :
        /\ \A i, j \in 1..Cardinality(S) : i # j => f[i] # f[j]
        /\ \A i, j \in 1..Cardinality(S) :
              i < j => products[f[i]].stock <= products[f[j]].stock}

\* products.lowStock: one query; the caller holds the list it returned.
LowStockQuery(p, userId, result) ==
    /\ Idle(p)
    /\ result \in SortedByStock(LowStockMatches(userId))
    /\ ret' = [ret EXCEPT ![p] = "ok"]
    /\ lv' = [lv EXCEPT ![p] = [op |-> "none", userId |-> userId, lowStock |-> result]]
    /\ UNCHANGED <<pc, stockVars, saleVars, shiftVars, invoiceVars, now>>

(***************************************************************************)
(* SpecLowStock: shop A holds a product with reorderPoint 5 at stock 7 and *)
(* a product of the older kind with minStock 5 at stock 5, shop B one with *)
(* reorderPoint 5 at stock 2; stock is taken out of them and both shops    *)
(* ask for their low-stock list.                                           *)
(***************************************************************************)
LegacyProduct(u, s, m) ==
    [userId |-> u, stock |-> s, minStock |-> m, createdStock |-> s]

InitLowStock ==
    /\ products = <<NewProduct("A", 7), LegacyProduct("A", 5, 5), NewProduct("B", 2)>>
    /\ movements = <<>> /\ objectIds = 0
    /\ sales = <<>> /\ saleItems = <<>> /\ customers = <<>>
    /\ shifts = <<>> /\ invoices = <<>> /\ settingsDocs = <<>>
    /\ now = 0
    /\ InitRequests

LowStockList(p) ==
    \E u \in Users, result \in UNION {[1..n -> 1..Len(products)] : n \in 0..Len(products)} :
        LowStockQuery(p, u, result)

LowStockTake(p) == AdjustCall(p, {1, 2, 3}, {-3, -2}, {"SALE"}, {NullNote})

NextLowStock ==
    \E p \in Procs :
        \/ LowStockList(p) \/ LowStockTake(p)
        \/ AdjustUpdate(p) \/ AdjustMovement(p)

SpecLowStock == InitLowStock /\ [][NextLowStock]_vars

\* C24: the list getLowStockProducts returns holds exactly the products of
\* the shop whose stock is at or below their reorderPoint, or their minStock
\* when they have no reorderPoint, each once: with reorderPoint 5 a product
\* is left out at stock 7 and listed at stock 5 and at stock 2.
C24_LowStockList ==
    [][\A p \in Procs, u \in Users :
         \A result \in UNION {[1..n -> 1..Len(products)] : n \in 0..Len(products)} :
            LowStockQuery(p, u, result)
              => /\ \A i \in 1..Len(products) :
                      (\E k \in 1..Len(result) : result[k] = i)
                        <=> /\ products[i].userId = u
                            /\ \/ /\ "reorderPoint" \in DOMAIN products[i]
                                  /\ products[i].stock <= products[i].reorderPoint
                               \/ /\ "reorderPoint" \notin DOMAIN products[i]
                                  /\ products[i].stock <= products[i].minStock
                 /\ \A j, k \in 1..Len(result) : j # k => result[j] # result[k]
                 /\ \A i \in 1..Len(products) :
                      (products[i].userId = u /\ "reorderPoint" \in DOMAIN products[i]
                          /\ products[i].reorderPoint = 5)
                        => /\ products[i].stock = 7
                                => \A k \in 1..Len(result) : result[k] # i
                           /\ products[i].stock \in {5, 2}
                                => \E k \in 1..Len(result) : result[k] = i
      ]_vars

\* Shop A was given its two products, the one with reorderPoint 5 first at
\* stock 2 after stock was taken from 7 by way of 5.
C24_Witness ==
    \E p \in Procs :
        /\ Idle(p)
        /\ lv[p] = [op |-> "none", userId |-> "A", lowStock |-> <<1, 2>>]
        /\ products[1].stock = 2 /\ products[1].reorderPoint = 5
        /\ products[2].stock = 5
        /\ Len(movements) = 2

(***************************************************************************)
(* Who writes the stock field.                                             *)
(***************************************************************************)
\* C25: the stock of an existing product changes only in the stock update
\* of adjustProductStock, reached from stock.in and sales.create; no other
\* step, products.update included, changes it.
C25_StockChangesOnlyByAdjustment ==
    [][\A i \in ProductIds :
         (products'[i] # Deleted /\ products'[i].stock # products[i].stock)
           => \E p \in Procs :
                /\ pc[p] = "adj_update" /\ pc'[p] # "adj_update"
                /\ lv[p].adj.productId = i
                /\ products'[i].stock = products[i].stock + lv[p].adj.quantityChange
      ]_vars

(***************************************************************************)
(* SpecOrder: shop A asks for invoices of a VAT sale, of a sale without    *)
(* VAT and of a sale that does not exist, with the Settings absent,        *)
(* complete or of the older kind at the start and edited in between.       *)
(***************************************************************************)
OrderCreate(p) == InvoiceCreateStart(p, {"A"}, {1, 4, 6})

NextOrder ==
    \E p \in Procs :
        \/ OrderCreate(p) \/ InvoiceFindExisting(p)
        \/ SettingsFindSingleton(p) \/ SettingsFindAny(p)
        \/ SettingsMigrate(p) \/ SettingsCreate(p)
        \/ InvoiceGenerateNumber(p) \/ InvoiceSave(p)
        \/ SellerUpdate(p) \/ SettingsWrite(p)

SpecOrder == InitInvoice /\ [][NextOrder]_vars

SettingsSteps == {"settings_singleton", "settings_any", "settings_migrate", "settings_create"}

\* C26 as stated: the four checks come in the order sale exists, vatRate > 0,
\* no invoice yet, seller fields complete, and no step of a create call
\* writes anything until all four have passed.
C26_NoWriteBeforeAllChecks ==
    [][\A p \in Procs :
         (lv[p].op = "invoiceCreate" /\ pc[p] \in {"inv_existing"} \cup SettingsSteps
             /\ pc'[p] # pc[p])
           => /\ invoices' = invoices
              /\ settingsDocs' = settingsDocs
      ]_vars

\* C26, amended: a create call answers with the error of the first check
\* that fails in the order sale exists, vatRate > 0, no invoice yet, seller
\* fields complete, whatever later checks would fail too; no invoice is
\* written before all four have passed, and the one write a call can make
\* before that is the Settings record getSettings creates when none exists.
C26_ChecksInOrder ==
    [][\A p \in Procs :
         /\ \A sid \in {1, 4, 6} :
              InvoiceCreateStart(p, {"A"}, {sid})
                => /\ sid \notin 1..Len(sales) => ret'[p] = "sale_not_found"
                   /\ (sid \in 1..Len(sales) /\ ~HasVat(sales[sid]))
                         => ret'[p] = "not_eligible"
                   /\ (sid \in 1..Len(sales) /\ HasVat(sales[sid]))
                         => pc'[p] = "inv_existing"
         /\ (pc[p] = "inv_existing" /\ pc'[p] # pc[p])
              => /\ SaleHasInvoice(lv[p].saleId)
                      => (pc'[p] = "idle" /\ ret'[p] = "already_exists")
                 /\ ~SaleHasInvoice(lv[p].saleId) => pc'[p] = "settings_singleton"
                 /\ invoices' = invoices /\ settingsDocs' = settingsDocs
         /\ (lv[p].op = "invoiceCreate" /\ pc[p] \in SettingsSteps /\ pc'[p] # pc[p])
              => /\ invoices' = invoices
                 /\ settingsDocs' # settingsDocs
                      => (settingsDocs = <<>> /\ settingsDocs' = <<DefaultSettings>>)
                 /\ pc'[p] = "idle" => ret'[p] \in {"seller_incomplete", "duplicate_key"}
         /\ (lv[p].op = "invoiceCreate" /\ invoices' # invoices /\ pc'[p] # pc[p])
              => /\ pc[p] = "inv_save"
                 /\ HasVat(sales[lv[p].saleId])
                 /\ ~SaleHasInvoice(lv[p].saleId)
                 /\ BlankSellerFields(lv[p]) = {}
      ]_vars

\* A create for the sale that has an invoice was answered with the
\* already-exists error while the stored seller name is blank.
C26_Witness ==
    \E p \in Procs :
        /\ Idle(p) /\ ret[p] = "already_exists"
        /\ Len(invoices) = 1 /\ invoices[1].saleId = 1
        /\ Len(settingsDocs) = 1 /\ settingsDocs[1].sellerName = " "

(***************************************************************************)
(* Shift numbers of a day.                                                 *)
(***************************************************************************)
\* The shifts of one shop and one calendar day, by position of creation.
ShiftsOfDay(userId, day) ==
    {i \in 1..Len(shifts) : shifts[i].userId = userId /\ shifts[i].shiftDate = day}

\* C27: for one shop and one calendar day the shiftNumbers of the day's
\* shifts are 1, 2, ..., n in order of creation, none twice, after every
\* interleaving of shift.open and shift.close calls.
C27_ShiftNumbersSequential ==
    \A u \in Users :
        \A i \in 1..Len(shifts) :
            shifts[i].userId = u
              => shifts[i].shiftNumber =
                    Cardinality({j \in ShiftsOfDay(u, shifts[i].shiftDate) : j <= i})

(***************************************************************************)
(* SpecTenant: shop A and shop B each own one product with stock 2; shop A *)
(* sells and takes in stock, naming its own product or shop B's.           *)
(***************************************************************************)
InitTenant ==
    /\ products = <<NewProduct("A", 2), NewProduct("B", 2)>>
    /\ movements = <<>> /\ objectIds = 0
    /\ sales = <<>> /\ saleItems = <<>> /\ customers = <<>>
    /\ shifts = <<>> /\ invoices = <<>> /\ settingsDocs = <<>>
    /\ now = 0
    /\ InitRequests

\* One unit of the shop's own product, one unit of the other shop's product,
\* and an item of quantity 0.
TenantItems == {<<Item(1, 1, 100)>>, <<Item(2, 1, 100)>>, <<Item(2, 0, 100)>>}

TenantSale(p) == SaleStart(p, {"A"}, TenantItems, {"cash"}, {NoName}, {0})

TenantStockIn(p) == StockInStart(p, {"A"}, {1, 2}, {0, 1}, {NullNote})

NextTenant ==
    \E p \in Procs :
        \/ TenantSale(p) \/ SaleCreateSale(p) \/ SaleCreateItems(p)
        \/ TenantStockIn(p) \/ StockInFind(p)
        \/ AdjustUpdate(p) \/ AdjustMovement(p)

SpecTenant == InitTenant /\ [][NextTenant]_vars

\* C28: no step of a sales.create call changes the stock of a product owned
\* by another shop than the caller's, or appends a movement to such a
\* product.
C28_SaleTouchesOwnProductsOnly ==
    [][\A p \in Procs :
         (lv[p].op = "sale" /\ pc'[p] # pc[p])
           => /\ \A i \in 1..Len(products) :
                   products[i].userId # lv[p].userId
                     => products'[i].stock = products[i].stock
              /\ Len(movements') > Len(movements)
                   => products[movements'[Len(movements')].productId].userId
                         = lv[p].userId
      ]_vars

(***************************************************************************)
(* Closing a shift on a later day.                                         *)
(***************************************************************************)
\* C29: every open shift can be closed: a shift.close call made by a shop
\* that has an open shift, on the day the shift was opened or on any later
\* day, finds an open shift of the shop and goes on to close it.
C29_OpenShiftCanBeClosed ==
    [][\A p \in Procs :
          (ShiftCloseFind(p) /\ OpenShiftsBy(lv[p].userId, lv[p].at) # {})
             => /\ pc'[p] = "close_summary"
                /\ lv'[p].shiftId \in OpenShiftsOf(lv[p].userId)
      ]_vars

(***************************************************************************)
(* SpecDrawer: shop A opens a shift with 500, sells one unit at 100 for    *)
(* cash, without VAT or with 7% VAT, and closes the shift with the cash    *)
(* its drawer then holds.                                                  *)
(***************************************************************************)
DrawerOpen(p) == p = "r1" /\ ShiftOpenArrive(p, {"A"}, {500})
DrawerClose(p) == p = "r1" /\ ShiftCloseArrive(p, {"A"}, {500, 600, 607})
DrawerSale(p) ==
    /\ p = "r2"
    /\ SaleStart(p, {"A"}, {<<Item(1, 1, 100)>>}, {"cash"}, {NoName}, {0, 7})

NextDrawer ==
    \/ Tick
    \/ \E p \in Procs :
        \/ DrawerOpen(p) \/ ShiftOpenCheck(p) \/ ShiftOpenMax(p) \/ ShiftOpenCreate(p)
        \/ DrawerClose(p) \/ ShiftCloseFind(p)
        \/ ShiftCloseCash(p) \/ ShiftCloseCredit(p) \/ ShiftCloseCount(p)
        \/ ShiftCloseUpdate(p)
        \/ DrawerSale(p) \/ SaleCreateSale(p) \/ SaleCreateItems(p)
        \/ AdjustUpdate(p) \/ AdjustMovement(p)

SpecDrawer == InitShift /\ [][NextDrawer]_vars

\* The cash received from the sales in S: what each customer was charged.
RECURSIVE ChargedOver(_)
ChargedOver(S) ==
    IF S = {} THEN Whole(0)
    ELSE LET i == CHOOSE j \in S : TRUE
         IN Plus(sales[i].totalWithVat, ChargedOver(S \ {i}))

\* C30: the cashSales figure a shift close computes is the sum of the
\* amounts charged (subtotal + vatAmount) for the cash sales of the shift
\* window, so a close whose counted cash is the opening cash plus every
\* cash payment received gets cashDifference 0, with or without VAT.  The
\* cash sales are those in the collection when the cash query is answered.
C30_CashSalesAreAmountsCharged ==
    [][\A p \in Procs :
         ShiftCloseCash(p)
           => LET l == lv[p]
                  cashSales == IF pc'[p] = "close_summary"
                               THEN OrElse(lv'[p].cashResult, 0)
                               ELSE lv'[p].cashSales
                  received == ChargedOver(SalesInWindow(l.userId, {"cash"},
                                                        l.startTime, l.endTime))
              IN /\ Whole(cashSales) = received
                 /\ Whole(l.closingCash) = PlusWhole(received, l.openingCash)
                       => CashDifference(l.closingCash, l.openingCash + cashSales) = 0
      ]_vars

====
